---- MODULE Spec2Model ----
(***************************************************************************)
(* mrusty: the argument marshaling and object-binding protocol generated   *)
(* by the mrfn! macro (src/src/macros.rs).                                 *)
(*                                                                         *)
(* Eight specifications share the variables:                               *)
(*   SigSpec  the signature compiler (@sig and the marker each arm adds),  *)
(*            applied to every declared shape up to MaxSigLen parameters;  *)
(*   Spec     call activations of registered entry points: receiver        *)
(*            binding, extraction, conversion, the closure body, nested    *)
(*            (reentrant) calls and the RefCell borrow flags of the host   *)
(*            objects;                                                     *)
(*   NestSpec  Spec, with the calls that end before their body also made   *)
(*            from the deepest activation;                                 *)
(*   ArgSpec  one activation stage by stage: the slots, what mrb_get_args  *)
(*            writes to them and the native values the closure binds;      *)
(*   ClassSpec  mrusty_class! and mruby_class! (defines!, mruby_defines!): *)
(*            the method tables they fill, and the calls and               *)
(*            constructions a script makes through them;                   *)
(*   SlotSpec  the cells each arm reserves and the addresses it passes to  *)
(*            mrb_get_args, for every declared shape;                      *)
(*   BindSpec  one call with the request of each binding recorded: the     *)
(*            receiver's and the parameters', in the order they are made;  *)
(*   FairBindSpec  BindSpec from the unborrowed state, where an arm's      *)
(*            statements go on and the closure body comes to an end.       *)
(***************************************************************************)
EXTENDS Integers, Sequences, FiniteSets, TLC

VARIABLES
    borrow,   \* RefCell borrow flag of each host object: 0 unused, n > 0 shared, -1 exclusive
    leaked,   \* guards whose destructor was skipped (never released), per object
    stack,    \* live call activations that are running their closure body, outermost first
    ev,       \* the last observable event of the call protocol
    decl,     \* SigSpec: the declared shape handed to the signature compiler
    sig,      \* SigSpec: the compiled signature, once compiled
    frames,   \* ArgSpec: call activations with their slots and native values, outermost first
    last,     \* ArgSpec: the last stage run, and the activation it ran in
    prog,     \* ClassSpec: the class declarations of the program (its macro invocations)
    classes,  \* ClassSpec: the runtime classes defined, and the host type each reflects
    tab,      \* ClassSpec: the method tables, (class, name, kind) -> entry point
    heap,     \* ClassSpec: the host object binding of each runtime object
    res,      \* ClassSpec: what the last require, construction or call did
    pass,     \* SlotSpec: the cells an entry point reserved and the addresses it passed
    bind      \* BindSpec: the call being bound, and how far its bindings got

slotVars == <<frames, last>>

classVars == <<prog, classes, tab, heap, res>>

vars ==
    <<borrow, leaked, stack, ev, decl, sig, frames, last, prog, classes, tab, heap, res,
      pass, bind>>

----
\* Bounds of the model.

\* SigSpec: longest declared fixed parameter list.
MaxSigLen == 3
\* Spec: deepest nesting of call activations (1 = no reentrant call).
MaxDepth == 2
\* Spec: number of guards that may be leaked over a behaviour.
MaxLeak == 1

----
\* Declared types (macros.rs 10-18, 162-170).

Types == {"bool", "i32", "f64", "str", "VecValue", "Class", "Value", "RefMut", "Ref"}

\* Declared shapes of SigSpec: every fixed parameter list up to MaxSigLen, with or
\* without a variadic tail (; args) and a block (; &blk).
RECURSIVE ListsUpTo(_, _)
ListsUpTo(S, n) ==
    IF n = 0 THEN {<<>>}
    ELSE LET shorter == ListsUpTo(S, n - 1)
         IN shorter \cup {Append(l, t) : l \in {x \in shorter : Len(x) = n - 1}, t \in S}

SigShapes == [params : ListsUpTo(Types, MaxSigLen), rest : BOOLEAN, blk : BOOLEAN]

\* A signature compiler that gives Class the generic object code.
SigCode_ClassAsObject(t) ==
    CASE t = "bool"     -> "b"
      [] t = "i32"      -> "i"
      [] t = "f64"      -> "f"
      [] t = "str"      -> "z"
      [] t = "VecValue" -> "A"
      [] OTHER          -> "o"

\* A signature compiler that emits the codes last parameter first.
RECURSIVE SigOf_Reversed(_)
SigOf_Reversed(ts) ==
    IF ts = <<>> THEN <<>>
    ELSE SigOf_Reversed(Tail(ts)) \o <<IF Head(ts) \in {"bool"} THEN "b"
                                        ELSE IF Head(ts) = "i32" THEN "i"
                                        ELSE IF Head(ts) = "f64" THEN "f"
                                        ELSE IF Head(ts) = "str" THEN "z"
                                        ELSE IF Head(ts) = "VecValue" THEN "A"
                                        ELSE IF Head(ts) = "Class" THEN "C"
                                        ELSE "o">>

\* An arm that writes the block marker before the variadic one.
ArmMarkers_BlockFirst(rest, blk) ==
    IF rest /\ blk THEN <<"&", "*">>
    ELSE IF rest THEN <<"*">>
    ELSE IF blk THEN <<"&">>
    ELSE <<>>

\* An arm that leaves the block marker out.
ArmMarkers_NoBlock(rest, blk) == IF rest THEN <<"*">> ELSE <<>>

\* @sig of one declared type.
SigCode(t) ==
    CASE t = "bool"     -> "b"
      [] t = "i32"      -> "i"
      [] t = "f64"      -> "f"
      [] t = "str"      -> "z"
      [] t = "VecValue" -> "A"
      [] t = "Class"    -> "C"
      [] t = "Value"    -> "o"
      [] t = "RefMut"   -> "o"
      [] t = "Ref"      -> "o"

\* @sig of a parameter list: concat! of the codes, in the order written.
RECURSIVE SigOf(_)
SigOf(ts) ==
    IF ts = <<>> THEN <<>>
    ELSE <<SigCode(Head(ts))>> \o SigOf(Tail(ts))

\* The marker each public arm concatenates after @sig.
ArmMarkers(rest, blk) ==
    IF rest /\ blk THEN <<"*", "&">>
    ELSE IF rest THEN <<"*">>
    ELSE IF blk THEN <<"&">>
    ELSE <<>>

\* sig_str of an arm: a sequence of one-character codes.
SigStr(params, rest, blk) == SigOf(params) \o ArmMarkers(rest, blk)

NoDecl == [params |-> <<>>, rest |-> FALSE, blk |-> FALSE]
NoSig == <<"?">>

----
\* The runtime values of Spec: a Fixnum and two instances of one reflected host type.

Objs == {"a", "b"}
Vals == {"n"} \cup Objs

ValKind(v) == IF v \in Objs THEN "obj" ELSE "int"

\* The registered entry points of Spec: mrfn! closures by declared self type, fixed
\* parameter list, variadic tail and block.
SelfTypes == {"Value", "Ref", "RefMut"}

ParamLists ==
    { <<>>, <<"i32">>, <<"Ref">>, <<"RefMut">>,
      <<"i32", "i32">>, <<"Ref", "Ref">>, <<"Ref", "RefMut">> }

Methods == [slf : SelfTypes, params : ParamLists, rest : BOOLEAN, blk : BOOLEAN]

\* Guards held, per object: shared (Ref<T>) and exclusive (RefMut<T>) counts.
NoHeld == [o \in Objs |-> [sh |-> 0, ex |-> 0]]

AddHeld(h, o, mode) ==
    IF mode = "ex" THEN [h EXCEPT ![o].ex = @ + 1] ELSE [h EXCEPT ![o].sh = @ + 1]

JoinHeld(h, g) == [o \in Objs |-> [sh |-> h[o].sh + g[o].sh, ex |-> h[o].ex + g[o].ex]]

RECURSIVE SumOver(_, _)
SumOver(f, S) ==
    IF S = {} THEN 0
    ELSE LET x == CHOOSE y \in S : TRUE IN f[x] + SumOver(f, S \ {x})

GuardCount(h) == SumOver([o \in Objs |-> h[o].sh + h[o].ex], Objs)

NoAtt == [obj |-> "none", mode |-> "none"]

\* An event: what ended or started (op), how (outcome: "enter" the closure body, a
\* returned "value", or the class of the exception the script sees), how the exception
\* was raised (via: by the runtime's own raise, or by a panic rescued at the entry
\* point), what failed (cause, and the borrow attempt att), whether the call site
\* violated the declared signature (viol), the number of mrb_get_args calls (nget), the
\* stages run (steps), the borrow flags when the activation started (before) and the
\* guards it held at the event (held).
NoEv ==
    [op |-> "none", outcome |-> "none", via |-> "none", cause |-> "none", att |-> NoAtt,
     viol |-> FALSE, nget |-> 0, steps |-> <<>>, before |-> [o \in Objs |-> 0],
     held |-> NoHeld]

----
\* RefCell<T>, as used by the macro through borrow() and borrow_mut().

\* A borrow_mut() that is granted while readers hold the cell.
TryBorrowMut_IgnoresReaders(flag) ==
    IF flag >= 0 THEN [ok |-> TRUE, flag |-> -1]
    ELSE [ok |-> FALSE, flag |-> flag]

\* A borrow_mut() that marks the cell before it finds out that it must refuse.
TryBorrowMut_MarksFirst(flag) ==
    IF flag = 0 THEN [ok |-> TRUE, flag |-> -1]
    ELSE [ok |-> FALSE, flag |-> -1]

\* An unwinding that leaves the guards where they are.
UnwindGuards_KeepsGuards(b, h) == b

\* A borrow() that is granted whatever the state of the cell.
TryBorrow_IgnoresWriter(flag) ==
    [ok |-> TRUE, flag |-> IF flag >= 0 THEN flag + 1 ELSE flag]

\* RefCell::borrow(): granted unless the cell is exclusively borrowed.
TryBorrow(flag) ==
    IF flag >= 0 THEN [ok |-> TRUE, flag |-> flag + 1]
    ELSE [ok |-> FALSE, flag |-> flag]

\* RefCell::borrow_mut(): granted only when the cell is unused.
TryBorrowMut(flag) ==
    IF flag = 0 THEN [ok |-> TRUE, flag |-> -1]
    ELSE [ok |-> FALSE, flag |-> flag]

\* Drop of the Ref / RefMut guards of one activation at the end of the closure's scope.
DropGuards(b, h) == [o \in Objs |-> b[o] - h[o].sh + h[o].ex]

\* A panic unwinds the closure: the guards acquired so far are dropped on the way.
UnwindGuards(b, h) == DropGuards(b, h)

\* The mruby exception class in which a panic of the closure is rescued.
Rescue(cause) == "RustPanic"

----
\* @slf and @conv of the typed-reference kinds: to_obj::<T>().unwrap(), then
\* borrow() / borrow_mut().  A failure is a panic, named by its cause.

ToObjBorrow(mode, v, h, b) ==
    IF v \notin Objs
    THEN [ok |-> FALSE, cause |-> "TypeMismatch", att |-> NoAtt, held |-> h, borrow |-> b]
    ELSE LET r == IF mode = "ex" THEN TryBorrowMut(b[v]) ELSE TryBorrow(b[v])
         IN IF r.ok
            THEN [ok |-> TRUE, cause |-> "none", att |-> NoAtt,
                  held |-> AddHeld(h, v, mode), borrow |-> [b EXCEPT ![v] = r.flag]]
            ELSE [ok |-> FALSE, cause |-> "BorrowConflict",
                  att |-> [obj |-> v, mode |-> mode],
                  held |-> h, borrow |-> [b EXCEPT ![v] = r.flag]]

Pass(h, b) == [ok |-> TRUE, cause |-> "none", att |-> NoAtt, held |-> h, borrow |-> b]

\* The runtime kind a native self type stands for.
SelfKind(st) ==
    CASE st = "bool"     -> "bool"
      [] st = "i32"      -> "int"
      [] st = "f64"      -> "float"
      [] st = "str"      -> "str"
      [] st = "VecValue" -> "array"
      [] st = "Class"    -> "class"

\* @slf of a native self type: $slf.to_bool() / to_i32() / ... .unwrap(), which
\* panics on a receiver of another kind.
ToNative(st, recv, h, b) ==
    IF SelfKind(st) = ValKind(recv) THEN Pass(h, b)
    ELSE [ok |-> FALSE, cause |-> "TypeMismatch", att |-> NoAtt, held |-> h, borrow |-> b]

\* @slf: the receiver binder.
BindSlf(st, recv, h, b) ==
    CASE st = "Value"  -> Pass(h, b)
      [] st = "RefMut" -> ToObjBorrow("ex", recv, h, b)
      [] st = "Ref"    -> ToObjBorrow("sh", recv, h, b)
      [] OTHER         -> ToNative(st, recv, h, b)

\* @conv of one extracted slot.
ConvOne(t, v, h, b) ==
    CASE t = "RefMut" -> ToObjBorrow("ex", v, h, b)
      [] t = "Ref"    -> ToObjBorrow("sh", v, h, b)
      [] OTHER        -> Pass(h, b)

\* A conversion that, when a slot fails, forgets the guards of the slots before it.
RECURSIVE ConvAll_ForgetsGuards(_, _, _, _, _)
ConvAll_ForgetsGuards(ts, vs, h, b, done) ==
    IF ts = <<>> THEN [r |-> [ok |-> TRUE, cause |-> "none", att |-> NoAtt,
                              held |-> h, borrow |-> b], done |-> done]
    ELSE LET c == IF Head(ts) \in {"Ref", "RefMut"}
                  THEN ToObjBorrow(IF Head(ts) = "RefMut" THEN "ex" ELSE "sh",
                                   Head(vs), h, b)
                  ELSE [ok |-> TRUE, cause |-> "none", att |-> NoAtt,
                        held |-> h, borrow |-> b]
         IN IF c.ok THEN ConvAll_ForgetsGuards(Tail(ts), Tail(vs), c.held, c.borrow, done + 1)
            ELSE [r |-> [c EXCEPT !.held = NoHeld], done |-> done + 1]

\* @conv of the parameter list: one conversion per slot, in declared order; the first
\* panic ends it.  done counts the conversions attempted.
RECURSIVE ConvAll(_, _, _, _, _)
ConvAll(ts, vs, h, b, done) ==
    IF ts = <<>> THEN [r |-> Pass(h, b), done |-> done]
    ELSE LET c == ConvOne(Head(ts), Head(vs), h, b)
         IN IF c.ok THEN ConvAll(Tail(ts), Tail(vs), c.held, c.borrow, done + 1)
            ELSE [r |-> c, done |-> done + 1]

----
\* mrb_get_args, the runtime's extraction primitive: it walks the signature and stores
\* one call-site argument per code; it raises when an argument is missing, is of
\* another kind than the code, or is left over with no "*" to take it.

KindOfCode(c) ==
    CASE c = "b" -> "bool"
      [] c = "i" -> "int"
      [] c = "f" -> "float"
      [] c = "z" -> "str"
      [] c = "A" -> "array"
      [] c = "C" -> "class"
      [] OTHER   -> "any"

Accepts(c, v) == c = "o" \/ KindOfCode(c) = ValKind(v)

RECURSIVE GetArgs(_, _, _)
GetArgs(s, args, slots) ==
    IF s = <<>> THEN [ok |-> args = <<>>, slots |-> slots, tail |-> <<>>]
    ELSE IF Head(s) = "*" THEN [ok |-> TRUE, slots |-> slots, tail |-> args]
    ELSE IF Head(s) = "&" THEN GetArgs(Tail(s), args, slots)
    ELSE IF args = <<>> \/ ~Accepts(Head(s), Head(args))
         THEN [ok |-> FALSE, slots |-> slots, tail |-> <<>>]
         ELSE GetArgs(Tail(s), Tail(args), Append(slots, Head(args)))

----
\* The generated entry point up to the closure body.

StepsOfConv(n) == [i \in 1..n |-> "conv"]

RecvOnly(m) == m.params = <<>> /\ ~m.rest /\ ~m.blk

Prologue(m, recv, args, b) ==
    LET Slf(s) ==
            [outcome |-> Rescue(s.cause), cause |-> s.cause, att |-> s.att, held |-> s.held,
             borrow |-> s.borrow, steps |-> <<"slf">>, nget |-> 0]
        Body0(s) ==
            [outcome |-> "enter", cause |-> "none", att |-> NoAtt, held |-> s.held,
             borrow |-> s.borrow, steps |-> <<"slf", "body">>, nget |-> 0]
        Raised(s) ==
            [outcome |-> "ArgumentError", cause |-> "ArgumentError", att |-> NoAtt,
             held |-> s.held, borrow |-> s.borrow,
             steps |-> <<"slf", "init", "get_args">>, nget |-> 1]
        Conv(c) ==
            IF ~c.r.ok
            THEN [outcome |-> Rescue(c.r.cause), cause |-> c.r.cause, att |-> c.r.att,
                  held |-> c.r.held, borrow |-> c.r.borrow,
                  steps |-> <<"slf", "init", "get_args">> \o StepsOfConv(c.done),
                  nget |-> 1]
            ELSE [outcome |-> "enter", cause |-> "none", att |-> NoAtt,
                  held |-> c.r.held, borrow |-> c.r.borrow,
                  steps |-> <<"slf", "init", "get_args">> \o StepsOfConv(c.done)
                                \o <<"body">>,
                  nget |-> 1]
    IN  \* mrfn!(@slf ...) comes first in every arm
        CHOOSE p \in
          { IF ~s.ok THEN Slf(s)
            \* the receiver-only arm goes straight to the body
            ELSE IF RecvOnly(m) THEN Body0(s)
            \* the other arms: @init, sig_str, mrb_get_args, @conv, then the body
            ELSE CHOOSE q \in
                   { IF ~g.ok THEN Raised(s)
                     ELSE Conv(ConvAll(m.params, g.slots, s.held, s.borrow, 0))
                     : g \in {GetArgs(SigStr(m.params, m.rest, m.blk), args, <<>>)} } : TRUE
            : s \in {BindSlf(m.slf, recv, NoHeld, b)} } : TRUE

NoLast == [op |-> "none"]

----
\* What a call site can violate: the declared arity and the declared kinds.

KindMatches(t, v) ==
    CASE t = "i32" -> ValKind(v) = "int"
      [] t \in {"Ref", "RefMut"} -> ValKind(v) = "obj"
      [] OTHER -> TRUE

Violates(m, args) ==
    \/ IF m.rest THEN Len(args) < Len(m.params) ELSE Len(args) # Len(m.params)
    \/ \E i \in 1..Len(m.params) : i <= Len(args) /\ ~KindMatches(m.params[i], args[i])

----
\* The state of ClassSpec: runtime classes, method tables and host object bindings.

\* The one reflected host type of the model: struct Cont { value: i32 }.
HostTypes == {"Cont"}

ClassNames == {"Cont", "Container", "Fixnum", "Pure"}
MethodNames == {"initialize", "add", "gt", "digits", "plus", "id"}
TableKinds == {"inst", "class"}

Keys == ClassNames \X MethodNames \X TableKinds

NoShape == [slf |-> "none", params |-> <<>>, rest |-> FALSE, blk |-> FALSE]

\* An entry point: the shape mrfn! was given, the closure body, what an initialize
\* closure returns (ret) and the macro that registered it (mode).
NoEntry == [m |-> NoShape, body |-> "none", ret |-> "none", mode |-> "none"]

NoTab == [k \in Keys |-> NoEntry]

\* The classes of a fresh runtime: the primitive ones exist, and reflect no host type.
Builtin ==
    [c \in ClassNames |-> [defined |-> c = "Fixnum", type |-> "none"]]

NoHeap == [o \in Objs |-> [bound |-> FALSE, val |-> 0]]

NoProg == [mrname |-> "", block |-> <<>>, dname |-> "", dblock |-> <<>>]

NoRes == [op |-> "none"]

----
\* Spec.

Init ==
    /\ borrow = [o \in Objs |-> 0]
    /\ leaked = NoHeld
    /\ stack = <<>>
    /\ ev = NoEv
    /\ decl = NoDecl
    /\ sig = NoSig
    /\ frames = <<>>
    /\ last = NoLast
    /\ pass = [called |-> FALSE, sig |-> <<>>, cells |-> <<>>, addrs |-> <<>>]
    /\ bind = [op |-> "none"]
    /\ prog = NoProg
    /\ classes = Builtin
    /\ tab = NoTab
    /\ heap = NoHeap
    /\ res = NoRes

ArgLists(m) == UNION {[1..k -> Vals] : k \in 0..(Len(m.params) + 1)}

\* The activations a call can start in the borrow state b: one per registered entry
\* point, receiver and argument list, as run by the entry point up to the closure body.
Activations(b) ==
    UNION { { [p |-> Prologue(m, recv, args, b), viol |-> Violates(m, args)]
              : recv \in Vals, args \in ArgLists(m) }
            : m \in Methods }

\* Activations depends on the borrow flags alone: it is tabulated once over the flags
\* a behaviour can show (at most one guard per receiver and parameter and activation,
\* plus the leaked ones), and computed directly for any other flags.
MaxGuardsPerCall ==
    1 + CHOOSE n \in {Len(l) : l \in ParamLists} : \A l \in ParamLists : Len(l) <= n

MaxFlagSum == MaxGuardsPerCall * MaxDepth + MaxLeak

FlagStates ==
    {b \in [Objs -> -1..MaxFlagSum] :
        SumOver([o \in Objs |-> IF b[o] > 0 THEN b[o] ELSE 1], Objs) <= MaxFlagSum + 1}

ActivationTable == {<<b, Activations(b)>> : b \in FlagStates}

ActivationsIn(b) ==
    IF b \in FlagStates
    THEN (CHOOSE r \in ActivationTable : r[1] = b)[2]
    ELSE Activations(b)

\* The runtime dispatches a call (from the script, or from a closure body that is
\* running) to a registered entry point, which runs up to the closure body.  MaxDepth
\* bounds the activations that are running their body; with deep, a call that ends
\* before its body can still be made from the deepest of them.
Dispatch(deep) ==
    /\ ev.op = "none"
    /\ deep \/ Len(stack) < MaxDepth
    /\ \E a \in ActivationsIn(borrow) :
         LET p == a.p
             e == [op |-> "call", outcome |-> p.outcome, via |-> "none", cause |-> p.cause,
                   att |-> p.att, viol |-> a.viol, nget |-> p.nget, steps |-> p.steps,
                   before |-> borrow, held |-> p.held]
         IN \* the closure body starts, holding the guards acquired
            \/ /\ p.outcome = "enter"
               /\ Len(stack) < MaxDepth
               /\ ev' = e
               /\ stack' = Append(stack, [held |-> p.held, base |-> borrow])
               /\ borrow' = p.borrow
               /\ leaked' = leaked
            \* an unwrap() or a borrow panicked: the closure unwinds to the entry point
            \/ /\ p.cause \in {"TypeMismatch", "BorrowConflict"}
               /\ ev' = [e EXCEPT !.via = "panic"]
               /\ stack' = stack
               /\ borrow' = UnwindGuards(p.borrow, p.held)
               /\ leaked' = leaked
            \* mrb_get_args raised: the runtime jumps (longjmp) out of the closure, past
            \* the guard of a receiver bound by @slf.  Whether the jump runs the guard's
            \* destructor is not defined: it is skipped (the borrow is never released) or
            \* run (a forced unwind).
            \/ /\ p.cause = "ArgumentError"
               /\ ev' = [e EXCEPT !.via = "raise"]
               /\ stack' = stack
               /\ \/ /\ GuardCount(leaked) + GuardCount(p.held) <= MaxLeak
                     /\ borrow' = p.borrow
                     /\ leaked' = JoinHeld(leaked, p.held)
                  \/ /\ borrow' = DropGuards(p.borrow, p.held)
                     /\ leaked' = leaked
    /\ UNCHANGED <<decl, sig, slotVars, classVars, pass, bind>>

\* A call, in Spec: none is made from the deepest activation.
Call == Dispatch(FALSE)

\* The closure body returns a Value.
Return ==
    /\ ev.op = "none"
    /\ stack # <<>>
    /\ LET top == stack[Len(stack)] IN
         /\ borrow' = DropGuards(borrow, top.held)
         /\ ev' = [NoEv EXCEPT !.op = "return", !.outcome = "value", !.before = top.base,
                               !.held = top.held]
    /\ stack' = SubSeq(stack, 1, Len(stack) - 1)
    /\ UNCHANGED <<leaked, decl, sig, slotVars, classVars, pass, bind>>

\* The closure body panics.
Panic ==
    /\ ev.op = "none"
    /\ stack # <<>>
    /\ LET top == stack[Len(stack)] IN
         /\ borrow' = UnwindGuards(borrow, top.held)
         /\ ev' = [NoEv EXCEPT !.op = "panic", !.outcome = Rescue("HostFault"),
                               !.via = "panic", !.cause = "HostFault",
                               !.before = top.base, !.held = top.held]
    /\ stack' = SubSeq(stack, 1, Len(stack) - 1)
    /\ UNCHANGED <<leaked, decl, sig, slotVars, classVars, pass, bind>>

\* Control goes on in the caller, or in the closure body that was entered.
Resume ==
    /\ ev.op # "none"
    /\ ev' = NoEv
    /\ UNCHANGED <<borrow, leaked, stack, decl, sig, slotVars, classVars, pass, bind>>

Next == Call \/ Return \/ Panic \/ Resume

Spec == Init /\ [][Next]_vars

\* NestSpec: Spec, where the body of the deepest activation also makes the calls that
\* end before their body.
NestSpec == Init /\ [][Dispatch(TRUE) \/ Return \/ Panic \/ Resume]_vars

----
\* SigSpec.

SigInit ==
    /\ decl \in SigShapes
    /\ sig = NoSig
    /\ borrow = [o \in Objs |-> 0]
    /\ leaked = NoHeld
    /\ stack = <<>>
    /\ ev = NoEv
    /\ frames = <<>>
    /\ last = NoLast
    /\ pass = [called |-> FALSE, sig |-> <<>>, cells |-> <<>>, addrs |-> <<>>]
    /\ bind = [op |-> "none"]
    /\ prog = NoProg
    /\ classes = Builtin
    /\ tab = NoTab
    /\ heap = NoHeap
    /\ res = NoRes

Compile ==
    /\ sig = NoSig
    /\ sig' = SigStr(decl.params, decl.rest, decl.blk)
    /\ UNCHANGED <<borrow, leaked, stack, ev, decl, slotVars, classVars, pass, bind>>

SigNext == Compile

SigSpec == SigInit /\ [][SigNext]_vars

----
\* ArgSpec: call activations at the level of slots and native values.

\* Widths, scaled down: a declared i32 has I32Bits bits; MrInt, the runtime's integer
\* and the type of an "i" slot, is wider.
I32Bits == 4
MrIntBits == 2 * I32Bits

RECURSIVE Pow2(_)
Pow2(n) == IF n = 0 THEN 1 ELSE 2 * Pow2(n - 1)

InMrInt(n) == -Pow2(MrIntBits - 1) <= n /\ n < Pow2(MrIntBits - 1)

\* `$name as i32`: the cast keeps the low bits.
AsI32(x) == ((x + Pow2(I32Bits - 1)) % Pow2(I32Bits)) - Pow2(I32Bits - 1)

\* Runtime values: a kind and a payload (the integer; the text, 1 valid UTF-8 and 2
\* not; the host object, 1 for "a" and 2 for "b").
IntV(n) == [k |-> "int", n |-> n]
StrV(n) == [k |-> "str", n |-> n]
ObjV(n) == [k |-> "obj", n |-> n]
NilV == [k |-> "nil", n |-> 0]
ProcV == [k |-> "proc", n |-> 1]
\* The content of a cell that nothing has written.
Junk == [k |-> "junk", n |-> 0]

\* The arguments of ArgSpec: two small integers, the first integer beyond i32, two
\* texts and a host object.
ArgVals ==
    {IntV(n) : n \in {x \in {1, 2, Pow2(I32Bits - 1)} : InMrInt(x)}}
        \cup {StrV(1), StrV(2), ObjV(1)}

TokOf(v) == IF v.k # "obj" THEN "n" ELSE IF v.n = 1 THEN "a" ELSE "b"

\* Longest variadic tail of a call.
MaxTail == 2
\* Deepest nesting of activations in ArgSpec.
MaxNest == 2

\* The registered entry points of ArgSpec.
ArgMethods ==
    { [slf |-> "Value", params |-> <<>>, rest |-> FALSE, blk |-> FALSE],
      [slf |-> "Value", params |-> <<"i32", "i32">>, rest |-> FALSE, blk |-> FALSE],
      [slf |-> "Value", params |-> <<"str">>, rest |-> FALSE, blk |-> FALSE],
      [slf |-> "Value", params |-> <<"Ref">>, rest |-> FALSE, blk |-> FALSE],
      [slf |-> "Value", params |-> <<>>, rest |-> TRUE, blk |-> FALSE],
      [slf |-> "Value", params |-> <<"i32">>, rest |-> TRUE, blk |-> FALSE],
      [slf |-> "Value", params |-> <<"Value">>, rest |-> FALSE, blk |-> TRUE],
      [slf |-> "Value", params |-> <<>>, rest |-> FALSE, blk |-> TRUE],
      [slf |-> "Value", params |-> <<"i32">>, rest |-> TRUE, blk |-> TRUE] }

\* The closure bodies that call back into the runtime: those that take one Value and
\* a block (block.call("call", vec![a])).
CallsBack(m) == m.params = <<"Value">> /\ m.blk /\ ~m.rest

\* The argument lists of a call to m, over the values vals: up to one argument too
\* many, or up to MaxTail arguments for the tail.
ArgListsV(m, vals) ==
    UNION {[1..n -> vals] : n \in 0..(Len(m.params) + IF m.rest THEN MaxTail ELSE 1)}

\* A cell: allocated or not, written or not, and its content.
NoCell == [alloc |-> FALSE, w |-> FALSE, v |-> Junk]
NewCell == [alloc |-> TRUE, w |-> FALSE, v |-> Junk]
Store(v) == [alloc |-> TRUE, w |-> TRUE, v |-> v]

\* An activation: the entry point m, the call (receiver, arguments, block given or
\* not), the stage to run next (pc), the cells, and what the closure has bound:
\* native parameters (nat), tail, block and guards.  early is set when a cell is read
\* that nothing has written.
NewFrame(m, recv, args, given) ==
    [m |-> m, recv |-> recv, args |-> args, given |-> given, pc |-> "slf",
     cells |-> <<>>, tailc |-> NoCell, blkc |-> NoCell,
     nat |-> <<>>, tail |-> <<>>, blk |-> Junk, held |-> NoHeld, early |-> FALSE]

\* mrb_get_args over runtime values.
AcceptsV(c, v) == c = "o" \/ KindOfCode(c) = v.k

NoneGot == [slots |-> <<>>, tail |-> <<>>, star |-> FALSE, amp |-> FALSE]

RECURSIVE ExtractV(_, _, _)
ExtractV(s, args, got) ==
    IF s = <<>>
    THEN [ok |-> args = <<>>, slots |-> got.slots, tail |-> got.tail,
          star |-> got.star, amp |-> got.amp]
    ELSE IF Head(s) = "*"
         THEN ExtractV(Tail(s), <<>>, [got EXCEPT !.tail = args, !.star = TRUE])
    ELSE IF Head(s) = "&"
         THEN ExtractV(Tail(s), args, [got EXCEPT !.amp = TRUE])
    ELSE IF args = <<>> \/ ~AcceptsV(Head(s), Head(args))
         THEN [ok |-> FALSE, slots |-> got.slots, tail |-> <<>>,
               star |-> got.star, amp |-> got.amp]
         ELSE ExtractV(Tail(s), Tail(args), [got EXCEPT !.slots = Append(@, Head(args))])

\* The block the runtime hands over: the call site's block, or nil when it gave none.
BlockArg(given) == IF given THEN ProcV ELSE NilV

\* Storage shared by all activations.
CellOwner_Static(fs) == 1

\* A tail built from the runtime's array last element first.
RECURSIVE ReadTail_Reversed(_)
ReadTail_Reversed(raw) ==
    IF raw = <<>> THEN <<>>
    ELSE Append(ReadTail_Reversed(Tail(raw)), [t |-> "Value", k |-> Head(raw).k, n |-> Head(raw).n])

TopOf(fs) == fs[Len(fs)]
Pop(fs) == SubSeq(fs, 1, Len(fs) - 1)

\* The cells of an activation are locals of its own closure call.
CellOwner(fs) == Len(fs)
Cells(fs) == fs[CellOwner(fs)]
PutCells(fs, cells, tailc, blkc) ==
    [fs EXCEPT ![CellOwner(fs)] =
        [@ EXCEPT !.cells = cells, !.tailc = tailc, !.blkc = blkc]]

NoPair == [alloc |-> FALSE, w |-> FALSE, v |-> <<>>]
NewPair == [alloc |-> TRUE, w |-> FALSE, v |-> <<>>]

\* mrb_get_args stores one raw value per code.
WriteCells(cells, raws) == [i \in DOMAIN cells |-> Store(raws[i])]

\* Value::new(mruby, raw): the handle, as it is.
WrapValue(raw) == [t |-> "Value", k |-> raw.k, n |-> raw.n]

\* slice::from_raw_parts(args, count), each element wrapped, in the array's order.
RECURSIVE ReadTail(_)
ReadTail(raw) ==
    IF raw = <<>> THEN <<>>
    ELSE <<WrapValue(Head(raw))>> \o ReadTail(Tail(raw))

\* @conv of one cell's content into the native parameter.
Native(t, raw) ==
    CASE t = "i32" -> [t |-> t, k |-> "int", n |-> AsI32(raw.n)]
      [] t = "str" -> [t |-> t, k |-> "str", n |-> raw.n]
      [] t \in {"Ref", "RefMut"} -> [t |-> t, k |-> "obj", n |-> raw.n]
      [] OTHER -> WrapValue(raw)

\* @conv of the cells, in declared order: CStr::to_str().unwrap() panics on text that
\* is not UTF-8, the typed references downcast and borrow.
RECURSIVE ConvCells(_, _, _)
ConvCells(ts, cells, acc) ==
    IF ts = <<>> THEN acc
    ELSE LET t == Head(ts)
             c == Head(cells)
             r == ConvOne(t, TokOf(c.v), acc.held, acc.borrow)
             read == [acc EXCEPT !.early = @ \/ ~c.w]
         IN IF t = "str" /\ c.v.n # 1
            THEN [read EXCEPT !.ok = FALSE, !.cause = "Utf8Error"]
            ELSE IF ~r.ok
            THEN [read EXCEPT !.ok = FALSE, !.cause = r.cause, !.held = r.held,
                              !.borrow = r.borrow]
            ELSE ConvCells(Tail(ts), Tail(cells),
                           [read EXCEPT !.nat = Append(@, Native(t, c.v)),
                                        !.held = r.held, !.borrow = r.borrow])

Running(pc) == frames # <<>> /\ TopOf(frames).pc = pc

\* The runtime dispatches a call: from the script, with any arguments, or from a
\* closure body that calls back, passing on the Value it was given.
ACall ==
    /\ last.op = "none"
    /\ Len(frames) < MaxNest
    /\ \/ frames = <<>>
       \/ Running("body") /\ CallsBack(TopOf(frames).m) /\ TopOf(frames).given
    /\ \E m \in ArgMethods :
         \E args \in ArgListsV(m, IF frames = <<>> THEN ArgVals
                                     ELSE {TopOf(frames).args[1]}),
            given \in (IF m.blk THEN BOOLEAN ELSE {FALSE}) :
            LET f == NewFrame(m, ObjV(1), args, given)
            IN /\ frames' = Append(frames, f)
               /\ last' = [op |-> "call", cause |-> "none", fr |-> f]
    /\ UNCHANGED <<borrow, leaked, stack, ev, decl, sig, classVars, pass, bind>>

\* mrfn!(@slf ...)
ASlf ==
    /\ Running("slf")
    /\ LET f == TopOf(frames)
           r == BindSlf(f.m.slf, TokOf(f.recv), NoHeld, borrow)
           g == [f EXCEPT !.pc = IF RecvOnly(f.m) THEN "body" ELSE "init",
                          !.held = r.held]
       IN IF r.ok
          THEN /\ frames' = [frames EXCEPT ![Len(frames)] = g]
               /\ borrow' = r.borrow
               /\ last' = [op |-> "slf", cause |-> "none", fr |-> g]
          ELSE /\ frames' = Pop(frames)
               /\ borrow' = UnwindGuards(r.borrow, r.held)
               /\ last' = [op |-> Rescue(r.cause), cause |-> r.cause, fr |-> f]
    /\ UNCHANGED <<leaked, stack, ev, decl, sig, classVars, pass, bind>>

\* mrfn!(@init ...): one cell per fixed parameter, and the block's in the block arm.
AInit ==
    /\ Running("init")
    /\ LET f == TopOf(frames)
           fs == PutCells([frames EXCEPT ![Len(frames)].pc = "get_args"],
                          [i \in 1..Len(f.m.params) |-> NewCell], NoPair,
                          IF f.m.blk /\ ~f.m.rest THEN NewCell ELSE NoCell)
       IN /\ frames' = fs
          /\ last' = [op |-> "init", cause |-> "none", fr |-> TopOf(fs)]
    /\ UNCHANGED <<borrow, leaked, stack, ev, decl, sig, classVars, pass, bind>>

\* sig_str and the extraction: mrfn!(@args ...), @args_rest or @args_rest_blk.  The
\* variadic forms allocate the (pointer, count) pair (and, with a block, its cell)
\* just before the call and read them just after it.
AExtract ==
    /\ Running("get_args")
    /\ LET f == TopOf(frames)
           g == ExtractV(SigStr(f.m.params, f.m.rest, f.m.blk), f.args, NoneGot)
       IN IF ~g.ok
          THEN \* mrb_get_args raised: longjmp out of the closure
               /\ frames' = Pop(frames)
               /\ last' = [op |-> "ArgumentError", cause |-> "ArgumentError", fr |-> f]
               /\ \/ /\ GuardCount(leaked) + GuardCount(f.held) <= MaxLeak
                     /\ leaked' = JoinHeld(leaked, f.held)
                     /\ borrow' = borrow
                  \/ /\ borrow' = DropGuards(borrow, f.held)
                     /\ leaked' = leaked
          ELSE LET c == Cells(frames)
                   pair == IF f.m.rest THEN NewPair ELSE c.tailc
                   bcell == IF f.m.rest /\ f.m.blk THEN NewCell ELSE c.blkc
                   fs1 == PutCells(frames,
                              WriteCells(c.cells, g.slots),
                              IF g.star THEN [pair EXCEPT !.w = TRUE, !.v = g.tail] ELSE pair,
                              IF g.amp THEN Store(BlockArg(f.given)) ELSE bcell)
                   c1 == Cells(fs1)
                   fs2 == IF f.m.rest
                          THEN [fs1 EXCEPT ![Len(fs1)] =
                                  [@ EXCEPT !.tail = ReadTail(c1.tailc.v),
                                            !.blk = IF f.m.blk THEN WrapValue(c1.blkc.v) ELSE @,
                                            !.early = @ \/ ~c1.tailc.w \/ (f.m.blk /\ ~c1.blkc.w)]]
                          ELSE fs1
                   fs3 == [fs2 EXCEPT ![Len(fs2)].pc = "conv"]
               IN /\ frames' = fs3
                  /\ last' = [op |-> "get_args", cause |-> "none", fr |-> TopOf(fs3)]
                  /\ UNCHANGED <<borrow, leaked>>
    /\ UNCHANGED <<stack, ev, decl, sig, classVars, pass, bind>>

\* mrfn!(@conv ...): the fixed parameters and, in the block arm, the block.
AConv ==
    /\ Running("conv")
    /\ LET f == TopOf(frames)
           c == Cells(frames)
           blkarm == f.m.blk /\ ~f.m.rest
           r == ConvCells(f.m.params, c.cells,
                          [ok |-> TRUE, cause |-> "none", nat |-> <<>>, held |-> f.held,
                           borrow |-> borrow, early |-> f.early])
           fs == [frames EXCEPT ![Len(frames)] =
                    [@ EXCEPT !.nat = r.nat, !.held = r.held,
                              !.blk = IF blkarm THEN WrapValue(c.blkc.v) ELSE @,
                              !.early = r.early \/ (blkarm /\ ~c.blkc.w),
                              !.pc = "body"]]
       IN IF r.ok
          THEN /\ frames' = fs
               /\ borrow' = r.borrow
               /\ last' = [op |-> "conv", cause |-> "none", fr |-> TopOf(fs)]
          ELSE /\ frames' = Pop(frames)
               /\ borrow' = UnwindGuards(r.borrow, r.held)
               /\ last' = [op |-> Rescue(r.cause), cause |-> r.cause,
                           fr |-> [f EXCEPT !.early = r.early]]
    /\ UNCHANGED <<leaked, stack, ev, decl, sig, classVars, pass, bind>>

\* The closure body returns its Value.
AReturn ==
    /\ Running("body")
    /\ LET f == TopOf(frames)
       IN /\ frames' = Pop(frames)
          /\ borrow' = DropGuards(borrow, f.held)
          /\ last' = [op |-> "return", cause |-> "none", fr |-> f]
    /\ UNCHANGED <<leaked, stack, ev, decl, sig, classVars, pass, bind>>

\* Control goes on: in the script, in the caller's body, or in the body just entered.
AResume ==
    /\ last.op # "none"
    /\ frames = <<>> \/ Running("body")
    /\ last' = NoLast
    /\ UNCHANGED <<frames, borrow, leaked, stack, ev, decl, sig, classVars, pass, bind>>

ArgNext == ACall \/ ASlf \/ AInit \/ AExtract \/ AConv \/ AReturn \/ AResume

ArgSpec == Init /\ [][ArgNext]_vars

----
\* ClassSpec: mrusty_class! and mruby_class!, and the script's use of the classes.

\* One def! / def_self! of a class block: the method name, whether the closure names
\* the runtime handle first, its typed parameters in the order written (ps), the
\* variadic tail (; args), the block (; &blk) and the closure body.
Def(name, handle, ps, rest, blk, body) ==
    [macro |-> "def", name |-> name, handle |-> handle, ps |-> ps, rest |-> rest,
     blk |-> blk, body |-> body]

DefSelf(name, handle, ps, rest, blk, body) ==
    [macro |-> "def_self", name |-> name, handle |-> handle, ps |-> ps, rest |-> rest,
     blk |-> blk, body |-> body]

\* The declarations of the model's programs.  Constructors of Cont, in each form
\* defines! has an arm for:
InitNone == Def("initialize", FALSE, <<>>, FALSE, FALSE, "cont_3")
InitHandle == Def("initialize", TRUE, <<>>, FALSE, FALSE, "cont_3")
InitFixed == Def("initialize", FALSE, <<"i32">>, FALSE, FALSE, "cont_v")
InitHandleFixed == Def("initialize", TRUE, <<"i32">>, FALSE, FALSE, "cont_v")
InitBlock == Def("initialize", FALSE, <<"i32">>, FALSE, TRUE, "cont_v")
InitArgs == Def("initialize", TRUE, <<>>, TRUE, FALSE, "cont_3")
InitArgsBlock == Def("initialize", TRUE, <<"i32">>, TRUE, TRUE, "cont_v")
\* methods of Cont:
AddDef == Def("add", FALSE, <<"Ref", "Ref">>, FALSE, FALSE, "add")
GtDef == Def("gt", TRUE, <<"Ref", "Ref">>, FALSE, FALSE, "gt")
GtAsAdd == Def("add", TRUE, <<"Ref", "Ref">>, FALSE, FALSE, "gt")
HiSelf == DefSelf("add", TRUE, <<"Value", "i32">>, FALSE, FALSE, "hi")
\* and methods of classes that reflect no host type:
DigitsDef == Def("digits", TRUE, <<"i32">>, FALSE, FALSE, "digits")
DigitsOpaque == Def("digits", FALSE, <<"Value">>, FALSE, FALSE, "hi")
PlusDef == Def("plus", FALSE, <<"i32", "Ref">>, FALSE, FALSE, "plus")
IdDef == Def("id", FALSE, <<"Value", "Value">>, FALSE, FALSE, "id")
IdSelf == DefSelf("id", FALSE, <<"Value", "Value">>, FALSE, FALSE, "id")
PureInit == Def("initialize", TRUE, <<"Value", "i32">>, FALSE, FALSE, "setvar")

\* A program: mrusty_class!(Cont [, mrname] [, { block }]) and
\* mruby_class!(mruby, dname [, { dblock }]).
Program(mrname, block, dname, dblock) ==
    [mrname |-> mrname, block |-> block, dname |-> dname, dblock |-> dblock]

Programs ==
    { Program("Container", <<InitFixed, AddDef, GtDef>>, "Fixnum", <<DigitsDef>>),
      Program("", <<InitNone, HiSelf, AddDef, GtAsAdd>>, "Fixnum", <<PlusDef, IdDef>>),
      Program("Container", <<InitBlock, InitArgs, GtDef>>, "Pure", <<PureInit, IdSelf>>),
      Program("", <<InitArgsBlock, AddDef, HiSelf>>, "Fixnum", <<DigitsDef, DigitsOpaque>>),
      Program("Container", <<InitHandle, InitHandleFixed, AddDef, GtDef>>, "Fixnum",
              <<PlusDef>>),
      Program("Container", <<>>, "Pure", <<>>),
      Program("", <<>>, "Fixnum", <<>>) }

\* A defines! that has no arms for "initialize".
DefinesEntry_PlainInitialize(d) ==
    [m |-> [slf |-> IF d.ps = <<>> THEN "Value" ELSE Head(d.ps),
            params |-> IF d.ps = <<>> THEN <<>> ELSE Tail(d.ps),
            rest |-> d.rest, blk |-> d.blk],
     body |-> d.body, ret |-> "none", mode |-> "reflected"]

\* defines!: the entry point mrfn! builds for one declaration.  The arms for
\* def!("initialize", ...) give mrfn! a receiver `slf: Value` of their own and wrap
\* the closure in slf.init(...); every other arm passes the closure's first typed
\* parameter on as the receiver.
DefinesEntry(d) ==
    IF d.macro = "def" /\ d.name = "initialize"
    THEN [m |-> [slf |-> "Value", params |-> d.ps, rest |-> d.rest, blk |-> d.blk],
          body |-> "init", ret |-> d.body, mode |-> "reflected"]
    ELSE [m |-> [slf |-> Head(d.ps), params |-> Tail(d.ps), rest |-> d.rest,
                 blk |-> d.blk],
          body |-> d.body, ret |-> "none", mode |-> "reflected"]

\* A mruby_defines! that treats "initialize" as defines! does.
MrubyDefinesEntry_AsReflected(d) == [DefinesEntry(d) EXCEPT !.mode = "dynamic"]

\* mruby_defines!: every arm passes the closure's first typed parameter on as the
\* receiver, with the type written; there is no arm for "initialize".
MrubyDefinesEntry(d) ==
    [m |-> [slf |-> Head(d.ps), params |-> Tail(d.ps), rest |-> d.rest, blk |-> d.blk],
     body |-> d.body, ret |-> "none", mode |-> "dynamic"]

\* The registration calls of the expansions, in the order they run.
Step(op, target, name, entry) ==
    [op |-> op, target |-> target, name |-> name, entry |-> entry]

\* A defines! whose def_self! arms register with def_method_for.
RECURSIVE DefinesSteps_OneTable(_, _)
DefinesSteps_OneTable(type, block) ==
    IF block = <<>> THEN <<>>
    ELSE <<Step("def_method_for", type, Head(block).name, DefinesEntry(Head(block)))>>
            \o DefinesSteps_OneTable(type, Tail(block))

\* defines!($mruby, $name, block): one registration per declaration, then the rest.
RECURSIVE DefinesSteps(_, _)
DefinesSteps(type, block) ==
    IF block = <<>> THEN <<>>
    ELSE LET d == Head(block)
         IN <<Step(IF d.macro = "def" THEN "def_method_for" ELSE "def_class_method_for",
                   type, d.name, DefinesEntry(d))>>
                \o DefinesSteps(type, Tail(block))

\* A require that registers the methods before it defines the class.
RequireSteps_MethodsFirst(p) ==
    DefinesSteps("Cont", p.block)
        \o <<Step("def_class_for", "Cont", IF p.mrname = "" THEN "Cont" ELSE p.mrname,
                  NoEntry)>>

\* mrusty_class!: require defines the class, under stringify!($name) or $mrname, then
\* runs defines! on the block.
RequireSteps(p) ==
    <<Step("def_class_for", "Cont", IF p.mrname = "" THEN "Cont" ELSE p.mrname, NoEntry)>>
        \o DefinesSteps("Cont", p.block)

RECURSIVE MrubyDefinesSteps(_, _)
MrubyDefinesSteps(class, block) ==
    IF block = <<>> THEN <<>>
    ELSE LET d == Head(block)
         IN <<Step(IF d.macro = "def" THEN "def_method" ELSE "def_class_method",
                   class, d.name, MrubyDefinesEntry(d))>>
                \o MrubyDefinesSteps(class, Tail(block))

\* mruby_class!: def_class, then mruby_defines! on the block with the class returned.
MrubyClassSteps(p) ==
    <<Step("def_class", "", p.dname, NoEntry)>> \o MrubyDefinesSteps(p.dname, p.dblock)

\* The runtime's method tables: defining a method under a key replaces the entry.
Register(t, key, e) == [t EXCEPT ![key] = e]

\* The table a registration call writes to.
TableOf(op) ==
    IF op \in {"def_method_for", "def_method"} THEN "inst" ELSE "class"

\* The classes that reflect host type t.
ClassesOf(cl, t) == {c \in ClassNames : cl[c].defined /\ cl[c].type = t}

\* One registration call on the runtime (st: its classes and tables, and whether
\* every call so far found its class).
ApplyStep(st, s) ==
    CASE s.op = "def_class_for" ->
            [st EXCEPT !.classes[s.name] = [defined |-> TRUE, type |-> s.target]]
      [] s.op = "def_class" ->
            [st EXCEPT !.classes[s.name].defined = TRUE]
      [] s.op \in {"def_method_for", "def_class_method_for"} ->
            IF ClassesOf(st.classes, s.target) = {} THEN [st EXCEPT !.ok = FALSE]
            ELSE LET c == CHOOSE c \in ClassesOf(st.classes, s.target) : TRUE
                 IN [st EXCEPT !.tab = Register(@, <<c, s.name, TableOf(s.op)>>, s.entry)]
      [] OTHER ->
            IF ~st.classes[s.target].defined THEN [st EXCEPT !.ok = FALSE]
            ELSE [st EXCEPT !.tab = Register(@, <<s.target, s.name, TableOf(s.op)>>,
                                             s.entry)]

\* The calls of an expansion, one after the other; a call that fails ends it.
RECURSIVE ApplySteps(_, _)
ApplySteps(st, steps) ==
    IF steps = <<>> \/ ~st.ok THEN st
    ELSE ApplySteps(ApplyStep(st, Head(steps)), Tail(steps))

\* The values of a script of ClassSpec: three integers, the constructed instances of
\* Cont, and a class as the receiver of a class method.
CInts == {2, 3, 4}
BoolV(b) == [k |-> "bool", n |-> IF b THEN 1 ELSE 0]
ClassV == [k |-> "class", n |-> 1]
ObjOf(o) == ObjV(IF o = "a" THEN 1 ELSE 2)

CVals(hp) == {IntV(n) : n \in CInts} \cup {ObjOf(o) : o \in {x \in Objs : hp[x].bound}}

CArgLists(m, hp) == UNION {[1..n -> CVals(hp)] : n \in 0..(Len(m.params) + 1)}

\* The receivers a script has for a method of class c: the class itself, the
\* constructed instances of the host type it reflects, or an integer.
Receivers(cl, hp, c, kind) ==
    IF kind = "class" THEN {ClassV}
    ELSE IF cl[c].type \in HostTypes THEN {ObjOf(o) : o \in {x \in Objs : hp[x].bound}}
    ELSE IF c = "Fixnum" THEN {IntV(3)}
    ELSE {}

\* The state of the Cont a constructor closure returns.
InitState(e, args) == IF e.ret = "cont_v" THEN AsI32(args[1].n) ELSE 3

\* Value::init: attaches a binding that holds the state to the object.
Attach(hp, o, state) == [hp EXCEPT ![o] = [bound |-> TRUE, val |-> state]]

\* The closure bodies: what they return and what they do to the bindings.
BodyValue(e, recv, args, hp) ==
    CASE e.body = "init"   -> recv
      [] e.body = "add"    -> IntV(hp[TokOf(recv)].val + hp[TokOf(args[1])].val)
      [] e.body = "gt"     -> BoolV(hp[TokOf(recv)].val > hp[TokOf(args[1])].val)
      [] e.body = "plus"   -> IntV(AsI32(recv.n) + hp[TokOf(args[1])].val)
      [] e.body = "digits" -> [k |-> "array", n |-> AsI32(recv.n)]
      [] e.body = "id"     -> args[1]
      [] e.body = "setvar" -> recv
      [] OTHER             -> StrV(1)

BodyHeap(e, recv, args, hp) ==
    IF e.body = "init" THEN Attach(hp, TokOf(recv), InitState(e, args)) ELSE hp

\* A body whose end forgets the guards it holds.
EndBody_KeepsGuards(b, h) == b

\* The end of the closure body: its locals are dropped, the guards among them.
EndBody(b, h) == DropGuards(b, h)

\* The entry point e run on a call: the prologue, and when the body is entered, the
\* body and the release of the guards at its end.
Invoke(e, recv, args, b, hp) ==
    LET p == Prologue(e.m, TokOf(recv), [i \in 1..Len(args) |-> TokOf(args[i])], b)
    IN IF p.outcome = "enter"
       THEN [outcome |-> "value", cause |-> "none", held |-> p.held,
             value |-> BodyValue(e, recv, args, hp), heap |-> BodyHeap(e, recv, args, hp),
             borrow |-> EndBody(p.borrow, p.held)]
       ELSE IF p.cause = "ArgumentError"
       THEN [outcome |-> p.outcome, cause |-> p.cause, held |-> p.held,
             value |-> NilV, heap |-> hp, borrow |-> p.borrow]
       ELSE [outcome |-> p.outcome, cause |-> p.cause, held |-> p.held,
             value |-> NilV, heap |-> hp, borrow |-> UnwindGuards(p.borrow, p.held)]

\* What a call or a construction leaves behind.
Outcome(op, key, e, recv, args, r) ==
    /\ res' = [op |-> op, key |-> key, entry |-> e, recv |-> recv, args |-> args,
               outcome |-> r.outcome, cause |-> r.cause, value |-> r.value,
               held |-> r.held, before |-> borrow, hbefore |-> heap]
    /\ heap' = r.heap
    /\ IF r.cause = "ArgumentError"
       THEN \* longjmp past the guards: leaked, or released by a forced unwind
            \/ /\ GuardCount(leaked) + GuardCount(r.held) <= MaxLeak
               /\ borrow' = r.borrow
               /\ leaked' = JoinHeld(leaked, r.held)
            \/ /\ borrow' = DropGuards(r.borrow, r.held)
               /\ leaked' = leaked
       ELSE borrow' = r.borrow /\ leaked' = leaked

ClassInit ==
    /\ prog \in Programs
    /\ classes = Builtin
    /\ tab = NoTab
    /\ heap = NoHeap
    /\ res = NoRes
    /\ borrow = [o \in Objs |-> 0]
    /\ leaked = NoHeld
    /\ stack = <<>>
    /\ ev = NoEv
    /\ decl = NoDecl
    /\ sig = NoSig
    /\ frames = <<>>
    /\ last = NoLast
    /\ pass = [called |-> FALSE, sig |-> <<>>, cells |-> <<>>, addrs |-> <<>>]
    /\ bind = [op |-> "none"]

\* Cont::require(mruby).
Require ==
    /\ res.op = "none"
    /\ LET steps == RequireSteps(prog)
           st == ApplySteps([classes |-> classes, tab |-> tab, ok |-> TRUE], steps)
       IN /\ classes' = st.classes
          /\ tab' = st.tab
          /\ res' = [op |-> "require", steps |-> steps, ok |-> st.ok, before |-> tab,
                     cbefore |-> classes]
    /\ UNCHANGED <<prog, heap, borrow, leaked, stack, ev, decl, sig, slotVars, pass, bind>>

\* The program evaluates its mruby_class!.
MrubyClass ==
    /\ res.op = "none"
    /\ LET steps == MrubyClassSteps(prog)
           st == ApplySteps([classes |-> classes, tab |-> tab, ok |-> TRUE], steps)
       IN /\ classes' = st.classes
          /\ tab' = st.tab
          /\ res' = [op |-> "mruby_class", steps |-> steps, ok |-> st.ok, before |-> tab,
                     cbefore |-> classes]
    /\ UNCHANGED <<prog, heap, borrow, leaked, stack, ev, decl, sig, slotVars, pass, bind>>

\* The script constructs an instance: Class#new allocates the object and calls the
\* class's initialize on it with the arguments of new.
CNew ==
    /\ res.op = "none"
    /\ \E o \in Objs :
         /\ ~heap[o].bound
         /\ o = "a" \/ heap["a"].bound
         /\ \E c \in {x \in ClassNames : classes[x].defined /\ x # "Fixnum"} :
              LET key == <<c, "initialize", "inst">>
                  e == tab[key]
              IN /\ e # NoEntry
                 /\ \E args \in CArgLists(e.m, heap) :
                      Outcome("new", key, e, ObjOf(o), args,
                              Invoke(e, ObjOf(o), args, borrow, heap))
    /\ UNCHANGED <<prog, classes, tab, stack, ev, decl, sig, slotVars, pass, bind>>

\* The script calls a method: the runtime looks the entry point up in the table of
\* the receiver's class and runs it.
CCall ==
    /\ res.op = "none"
    /\ \E key \in {k \in Keys : tab[k] # NoEntry /\ k[2] # "initialize"} :
         LET e == tab[key]
         IN \E recv \in Receivers(classes, heap, key[1], key[3]),
               args \in CArgLists(e.m, heap) :
               Outcome("call", key, e, recv, args, Invoke(e, recv, args, borrow, heap))
    /\ UNCHANGED <<prog, classes, tab, stack, ev, decl, sig, slotVars, pass, bind>>

\* The script goes on.
CResume ==
    /\ res.op # "none"
    /\ res' = NoRes
    /\ UNCHANGED <<prog, classes, tab, heap, borrow, leaked, stack, ev, decl, sig,
                   slotVars, pass, bind>>

ClassNext == Require \/ MrubyClass \/ CNew \/ CCall \/ CResume

ClassSpec == ClassInit /\ [][ClassNext]_vars

----
\* SlotSpec: the cells an arm reserves and the addresses it hands to mrb_get_args.

\* @init: the storage reserved for a parameter of declared type t.
StorageOf(t) ==
    CASE t = "bool" -> "bool"
      [] t = "i32"  -> "MrInt"
      [] t = "f64"  -> "MrFloat"
      [] t = "str"  -> "CharPtr"
      [] OTHER      -> "MrValue"

\* @args: what the address of a parameter's cell is cast to point to.
CastOf(t) ==
    CASE t = "bool" -> "bool"
      [] t = "i32"  -> "MrInt"
      [] t = "f64"  -> "MrFloat"
      [] t = "str"  -> "CharPtr"
      [] OTHER      -> "MrValue"

\* What mrb_get_args stores through the addresses it takes for one signature code.
Expects(c) ==
    CASE c = "b" -> <<"bool">>
      [] c = "i" -> <<"MrInt">>
      [] c = "f" -> <<"MrFloat">>
      [] c = "z" -> <<"CharPtr">>
      [] c = "*" -> <<"MrValuePtr", "MrInt">>
      [] OTHER   -> <<"MrValue">>

\* The cells an arm reserves, in the order it reserves them: @init, then the locals of
\* @args_rest or @args_rest_blk.  A cell is named by the local it is (the i-th
\* parameter, args, count or blk) and has the kind of storage reserved.
ArmCells(d) ==
    [i \in 1..Len(d.params) |-> [n |-> "param", i |-> i, kind |-> StorageOf(d.params[i])]]
        \o (IF d.rest THEN <<[n |-> "args", i |-> 0, kind |-> "MrValuePtr"],
                             [n |-> "count", i |-> 0, kind |-> "MrInt"]>>
            ELSE <<>>)
        \o (IF d.blk THEN <<[n |-> "blk", i |-> 0, kind |-> "MrValue"]>> ELSE <<>>)

\* An arm that passes the block's address before the tail's.
ArmAddrs_BlockBeforeTail(d) ==
    [i \in 1..Len(d.params) |-> [n |-> "param", i |-> i, kind |-> CastOf(d.params[i])]]
        \o (IF d.blk THEN <<[n |-> "blk", i |-> 0, kind |-> "MrValue"]>> ELSE <<>>)
        \o (IF d.rest THEN <<[n |-> "args", i |-> 0, kind |-> "MrValuePtr"],
                             [n |-> "count", i |-> 0, kind |-> "MrInt"]>>
            ELSE <<>>)

\* The addresses an arm passes to mrb_get_args after the signature, in order: each is
\* the address of a cell, cast to a pointer to a kind of storage.
ArmAddrs(d) ==
    [i \in 1..Len(d.params) |-> [n |-> "param", i |-> i, kind |-> CastOf(d.params[i])]]
        \o (IF d.rest THEN <<[n |-> "args", i |-> 0, kind |-> "MrValuePtr"],
                             [n |-> "count", i |-> 0, kind |-> "MrInt"]>>
            ELSE <<>>)
        \o (IF d.blk THEN <<[n |-> "blk", i |-> 0, kind |-> "MrValue"]>> ELSE <<>>)

\* The entry point of the declared shape runs up to its call of mrb_get_args; the
\* receiver-only arm reserves nothing and makes no call.
PassSlots ==
    /\ ~pass.called
    /\ ~RecvOnly(decl)
    /\ pass' = [called |-> TRUE, sig |-> SigStr(decl.params, decl.rest, decl.blk),
                cells |-> ArmCells(decl), addrs |-> ArmAddrs(decl)]
    /\ UNCHANGED <<borrow, leaked, stack, ev, decl, sig, slotVars, classVars, bind>>

SlotSpec == SigInit /\ [][PassSlots]_vars

----
\* BindSpec: one call, from its dispatch to the return of control to the caller,
\* statement by statement through its arm, with the borrow attempts it makes logged
\* in the order it makes them.

\* The mode a declared type borrows in, "none" for the types that do not borrow.
ModeOf(t) == CASE t = "RefMut" -> "ex" [] t = "Ref" -> "sh" [] OTHER -> "none"

\* The log with one more attempt: who asked (0 the receiver, i the i-th parameter), for
\* which value, in which mode, and whether it was granted.
Logged(log, who, t, v, r) ==
    IF ModeOf(t) = "none" THEN log
    ELSE Append(log, [who |-> who, v |-> v, mode |-> ModeOf(t), ok |-> r.ok,
                      cause |-> r.cause])

\* A @conv that converts the last parameter first.
ConvQueue_Reversed(params, slots) ==
    [i \in 1..Len(params) |->
        [i |-> Len(params) + 1 - i, t |-> params[Len(params) + 1 - i],
         v |-> slots[Len(params) + 1 - i]]]

\* mrfn!(@conv $mruby, $($names : $ts),+): the conversions of a call, in the order
\* the expansion writes them.
ConvQueue(params, slots) ==
    [i \in 1..Len(params) |-> [i |-> i, t |-> params[i], v |-> slots[i]]]

\* The runtime dispatches a call to an entry point.
BCall ==
    /\ bind.op = "none"
    /\ \E m \in Methods, recv \in Vals :
         \E args \in ArgLists(m) :
            bind' = [op |-> "run", pc |-> "slf", m |-> m, recv |-> recv, args |-> args,
                     before |-> borrow, held |-> NoHeld, log |-> <<>>, todo |-> <<>>,
                     bodies |-> 0, outcome |-> "none", cause |-> "none", values |-> 0,
                     raised |-> 0]
    /\ UNCHANGED <<borrow, leaked, stack, ev, decl, sig, slotVars, classVars, pass>>

\* A panic that is swallowed: the activation ends and the runtime is handed nothing.
Unwound_Swallowed(r, log) ==
    [bind EXCEPT !.pc = "done", !.log = log, !.held = NoHeld, !.todo = <<>>]

\* A panic inside the closure: the guards acquired so far are dropped on the way out
\* and the entry point hands the runtime one exception.
Unwound(r, log) ==
    [bind EXCEPT !.pc = "done", !.log = log, !.held = NoHeld, !.todo = <<>>,
                 !.outcome = Rescue(r.cause), !.cause = r.cause, !.raised = @ + 1]

\* mrfn!(@slf $slf, $st), the first statement of every arm.
BSlf ==
    /\ bind.op = "run" /\ bind.pc = "slf"
    /\ LET r == BindSlf(bind.m.slf, bind.recv, bind.held, borrow)
           log == Logged(bind.log, 0, bind.m.slf, bind.recv, r)
       IN IF r.ok
          THEN /\ bind' = [bind EXCEPT !.pc = IF RecvOnly(bind.m) THEN "body" ELSE "get",
                                       !.log = log, !.held = r.held]
               /\ borrow' = r.borrow
          ELSE /\ bind' = Unwound(r, log)
               /\ borrow' = UnwindGuards(r.borrow, r.held)
    /\ UNCHANGED <<leaked, stack, ev, decl, sig, slotVars, classVars, pass>>

\* @init, sig_str and mrb_get_args.  When the arguments do not fit, the runtime jumps
\* out of the closure past the receiver's guard, which is dropped or not.
BGetArgs ==
    /\ bind.op = "run" /\ bind.pc = "get"
    /\ LET g == GetArgs(SigStr(bind.m.params, bind.m.rest, bind.m.blk), bind.args, <<>>)
       IN IF g.ok
          THEN /\ bind' = [bind EXCEPT !.pc = IF bind.m.params = <<>> THEN "body"
                                              ELSE "conv",
                                       !.todo = ConvQueue(bind.m.params, g.slots)]
               /\ UNCHANGED <<borrow, leaked>>
          ELSE /\ bind' = [bind EXCEPT !.pc = "done", !.held = NoHeld,
                                       !.outcome = "ArgumentError",
                                       !.cause = "ArgumentError", !.raised = @ + 1]
               /\ \/ /\ GuardCount(leaked) + GuardCount(bind.held) <= MaxLeak
                     /\ borrow' = borrow
                     /\ leaked' = JoinHeld(leaked, bind.held)
                  \/ /\ borrow' = DropGuards(borrow, bind.held)
                     /\ leaked' = leaked
    /\ UNCHANGED <<stack, ev, decl, sig, slotVars, classVars, pass>>

\* The next conversion of @conv.
BConv ==
    /\ bind.op = "run" /\ bind.pc = "conv"
    /\ LET c == Head(bind.todo)
           r == ConvOne(c.t, c.v, bind.held, borrow)
           log == Logged(bind.log, c.i, c.t, c.v, r)
       IN IF r.ok
          THEN /\ bind' = [bind EXCEPT !.pc = IF Tail(bind.todo) = <<>> THEN "body"
                                              ELSE "conv",
                                       !.todo = Tail(@), !.log = log, !.held = r.held]
               /\ borrow' = r.borrow
          ELSE /\ bind' = Unwound(r, log)
               /\ borrow' = UnwindGuards(r.borrow, r.held)
    /\ UNCHANGED <<leaked, stack, ev, decl, sig, slotVars, classVars, pass>>

\* $block starts.
BEnter ==
    /\ bind.op = "run" /\ bind.pc = "body"
    /\ bind' = [bind EXCEPT !.pc = "in", !.bodies = @ + 1]
    /\ UNCHANGED <<borrow, leaked, stack, ev, decl, sig, slotVars, classVars, pass>>

\* $block ends with its Value: the closure's scope ends and the guards are dropped.
BReturn ==
    /\ bind.op = "run" /\ bind.pc = "in"
    /\ bind' = [bind EXCEPT !.pc = "done", !.held = NoHeld, !.outcome = "value",
                            !.values = @ + 1]
    /\ borrow' = DropGuards(borrow, bind.held)
    /\ UNCHANGED <<leaked, stack, ev, decl, sig, slotVars, classVars, pass>>

\* $block panics: the closure unwinds.
BPanic ==
    /\ bind.op = "run" /\ bind.pc = "in"
    /\ bind' = [bind EXCEPT !.pc = "done", !.held = NoHeld,
                            !.outcome = Rescue("HostFault"), !.cause = "HostFault",
                            !.raised = @ + 1]
    /\ borrow' = UnwindGuards(borrow, bind.held)
    /\ UNCHANGED <<leaked, stack, ev, decl, sig, slotVars, classVars, pass>>

\* Control is back in the caller.
BResume ==
    /\ bind.op = "run" /\ bind.pc = "done"
    /\ bind' = [bind EXCEPT !.op = "back"]
    /\ UNCHANGED <<borrow, leaked, stack, ev, decl, sig, slotVars, classVars, pass>>

BindNext == BCall \/ BSlf \/ BGetArgs \/ BConv \/ BEnter \/ BReturn \/ BPanic \/ BResume

\* A call starts with the flags an enclosing activation can have left on the objects:
\* it holds nothing, or a shared or an exclusive guard on the object a.
BindSpec ==
    /\ borrow \in {f \in [Objs -> -1..1] : f["b"] = 0}
    /\ leaked = NoHeld
    /\ stack = <<>>
    /\ ev = NoEv
    /\ decl = NoDecl
    /\ sig = NoSig
    /\ frames = <<>>
    /\ last = NoLast
    /\ pass = [called |-> FALSE, sig |-> <<>>, cells |-> <<>>, addrs |-> <<>>]
    /\ bind = [op |-> "none"]
    /\ prog = NoProg
    /\ classes = Builtin
    /\ tab = NoTab
    /\ heap = NoHeap
    /\ res = NoRes
    /\ [][BindNext]_vars

\* The same calls made with nothing borrowed beforehand, where the statements of an
\* arm run one after the other without stopping and the closure body, once started,
\* comes to an end (with a Value or a panic).
FairBindSpec ==
    /\ Init
    /\ [][BindNext]_vars
    /\ WF_vars(BSlf) /\ WF_vars(BGetArgs) /\ WF_vars(BConv) /\ WF_vars(BEnter)
    /\ WF_vars(BReturn \/ BPanic)

----
\* Properties of the signature compiler (SigSpec).

\* The compiled signature without its trailing markers.
Fixed(s) ==
    LET n == Len(s)
        a == IF n > 0 /\ s[n] = "&" THEN n - 1 ELSE n
        b == IF a > 0 /\ s[a] = "*" THEN a - 1 ELSE a
    IN SubSeq(s, 1, b)

\* C7: the signature compiled for a closure with n fixed parameters has, apart from
\* the markers, exactly n codes, and the i-th code is the code of the i-th declared
\* parameter.
C7_OneCodePerParameter ==
    sig # NoSig =>
        /\ Len(Fixed(sig)) = Len(decl.params)
        /\ \A i \in 1..Len(decl.params) : Fixed(sig)[i] = SigCode(decl.params[i])

C7_Witness ==
    /\ sig # NoSig
    /\ decl.params = <<"i32", "str", "Ref">>
    /\ decl.rest /\ ~decl.blk

GenericTypes == {"Value", "Ref", "RefMut"}

\* C8: boolean, 32-bit integer, 64-bit float, string, array and class have six
\* distinct codes; an untyped value and the two typed host-object reference kinds
\* share one generic code, which differs from those six.
C8_SixCodesAndOneGeneric ==
    sig # NoSig =>
        \A i, j \in 1..Len(decl.params) :
            /\ (sig[i] = sig[j]) <=>
                   \/ decl.params[i] = decl.params[j]
                   \/ {decl.params[i], decl.params[j]} \subseteq GenericTypes
            /\ (sig[i] = "o") <=> (decl.params[i] \in GenericTypes)

C8_Witness ==
    /\ sig # NoSig
    /\ decl.params = <<"Value", "Ref", "RefMut">>
    /\ sig[1] = sig[2] /\ sig[2] = sig[3]

MarkerAt(s) == {i \in 1..Len(s) : s[i] \in {"*", "&"}}

\* C9: a variadic tail appends the variadic marker and a block the block marker, the
\* variadic one first and the block one last; no marker precedes a fixed-parameter
\* code, and a closure with neither has no marker.
C9_MarkersTrail ==
    sig # NoSig =>
        /\ decl.rest <=> (\E i \in MarkerAt(sig) : sig[i] = "*")
        /\ decl.blk <=> (\E i \in MarkerAt(sig) : sig[i] = "&")
        /\ Cardinality(MarkerAt(sig)) =
               (IF decl.rest THEN 1 ELSE 0) + (IF decl.blk THEN 1 ELSE 0)
        /\ \A i \in MarkerAt(sig) : i > Len(decl.params)
        /\ \A i, j \in MarkerAt(sig) : sig[i] = "*" /\ sig[j] = "&" => i < j
        /\ decl.blk => sig[Len(sig)] = "&"
        /\ Len(sig) = Len(decl.params) + Cardinality(MarkerAt(sig))

C9_Witness ==
    /\ sig # NoSig
    /\ decl.rest /\ decl.blk
    /\ Len(decl.params) = 2
    /\ MarkerAt(sig) = {3, 4}

----
\* Properties of call activations (Spec, NestSpec).

\* Guards held on object o by the activations that are running their closure body.
LiveSh(o) == SumOver([i \in 1..Len(stack) |-> stack[i].held[o].sh], 1..Len(stack))
LiveEx(o) == SumOver([i \in 1..Len(stack) |-> stack[i].held[o].ex], 1..Len(stack))

\* The borrow flag that the live and the leaked guards of object o account for.
FlagOfGuards(o) == LiveSh(o) + leaked[o].sh - LiveEx(o) - leaked[o].ex

Stages(e) == {e.steps[i] : i \in 1..Len(e.steps)}

\* An activation ended: it returned, its body panicked, or it never entered its body.
Ended == ev.op \in {"return", "panic"} \/ (ev.op = "call" /\ ev.outcome # "enter")

\* C1: a call whose arguments violate the declared signature in arity or kind (the
\* empty parameter list included) raises a catchable exception, and the closure body
\* is never entered with such arguments.
C1_ViolationRaises ==
    (ev.op = "call" /\ ev.viol) =>
        /\ ev.outcome \in {"ArgumentError", "RustPanic"}
        /\ "body" \notin Stages(ev)

\* C2: each host object is unborrowed, or borrowed exclusively once, or shared by one
\* or more borrows; a borrow attempt that would break this is refused with
\* BorrowConflict (and only such an attempt is), and its activation never enters the
\* closure body.
C2_BorrowExclusion ==
    /\ \A o \in Objs :
          /\ LiveEx(o) <= 1
          /\ LiveEx(o) = 1 => LiveSh(o) = 0
          /\ LiveEx(o) = 1 => borrow[o] = -1
          /\ LiveSh(o) >= 1 => borrow[o] >= LiveSh(o)
    /\ (ev.op = "call" /\ ev.cause = "BorrowConflict") =>
          /\ ev.outcome # "enter"
          /\ "body" \notin Stages(ev)
          /\ LET o == ev.att.obj
                 flag == ev.before[o] + ev.held[o].sh - ev.held[o].ex
             IN IF ev.att.mode = "ex" THEN flag # 0 ELSE flag < 0

C2_Witness ==
    /\ Len(stack) = 2
    /\ \E o \in Objs : stack[1].held[o].sh >= 1 /\ stack[2].held[o].sh >= 1
    /\ \E o \in Objs : LiveEx(o) = 1

\* Shared guards held on o by the activations outside the one ev is about.
OuterSh(o) ==
    IF ev.op = "call" /\ ev.outcome = "enter" THEN LiveSh(o) - ev.held[o].sh
    ELSE LiveSh(o)

\* C3: when a reentrant call tries to borrow exclusively an object on which an outer
\* activation holds a shared borrow, the attempt is never granted: it fails with
\* BorrowConflict, and after it the outer shared borrow is held as before (same flag,
\* no exclusive borrow).
C3_ReentrantExclusiveRefused ==
    /\ ev.op = "call" => \A o \in Objs : OuterSh(o) >= 1 => ev.held[o].ex = 0
    /\ (/\ ev.op = "call"
        /\ ev.cause = "BorrowConflict"
        /\ ev.att.mode = "ex"
        /\ LiveSh(ev.att.obj) >= 1) =>
           /\ ev.outcome = "RustPanic"
           /\ "body" \notin Stages(ev)
           /\ borrow = ev.before
           /\ borrow[ev.att.obj] >= LiveSh(ev.att.obj)
           /\ LiveEx(ev.att.obj) = 0

C3_Witness ==
    /\ ev.op = "call"
    /\ ev.cause = "BorrowConflict"
    /\ ev.att = [obj |-> "a", mode |-> "ex"]
    /\ Len(stack) = 1
    /\ stack[1].held["a"].sh = 1
    /\ borrow["a"] = 1

\* C4: every activation, however it ends (return, panic in the body, conversion
\* failure, ArgumentError from extraction), leaves the borrow flags as it found them:
\* all the borrows it acquired are released.
C4_EveryExitReleases ==
    Ended => borrow = ev.before

\* C5, as stated: a conversion or receiver-binding failure is surfaced as an exception
\* of the class that extraction raises (ArgumentError), never through the panic path.
C5_SurfacedAsArgumentError ==
    (ev.op = "call" /\ ev.cause \in {"TypeMismatch", "BorrowConflict"}) =>
        /\ ev.outcome = "ArgumentError"
        /\ ev.via # "panic"

\* C5, amended: a conversion or receiver-binding failure (TypeMismatch or
\* BorrowConflict) is a panic that is rescued at the entry point as a catchable
\* RustPanic exception; the closure body is not entered and the borrows the activation
\* had acquired are released.
C5_SurfacedAsRustPanic ==
    (ev.op = "call" /\ ev.cause \in {"TypeMismatch", "BorrowConflict"}) =>
        /\ ev.outcome = "RustPanic"
        /\ ev.via = "panic"
        /\ "body" \notin Stages(ev)
        /\ borrow = ev.before

C5_Witness ==
    /\ ev.op = "call"
    /\ ev.cause = "TypeMismatch"
    /\ ev.nget = 1
    /\ GuardCount(ev.held) = 2
    /\ borrow = ev.before

C10_ExtractsOnceBeforeBody ==
    (ev.op = "call" /\ ev.outcome = "enter") =>
        /\ ev.nget = 1
        /\ \E i, j \in 1..Len(ev.steps) :
              i < j /\ ev.steps[i] = "get_args" /\ ev.steps[j] = "body"

\* C11: in an activation that allocates slots and starts the closure body, the stages
\* run in the order slot allocation, argument extraction, per-slot conversion, receiver
\* binding, and the body starts only after all four.
C11_ReceiverBoundLast ==
    (ev.op = "call" /\ ev.outcome = "enter" /\ "init" \in Stages(ev)) =>
        LET At(x) == {i \in 1..Len(ev.steps) : ev.steps[i] = x}
        IN /\ At("init") # {} /\ At("get_args") # {} /\ At("slf") # {}
           /\ \A i \in At("init"), j \in At("get_args") : i < j
           /\ \A j \in At("get_args"), k \in At("conv") : j < k
           /\ \A k \in At("get_args") \cup At("conv"), l \in At("slf") : k < l
           /\ At("body") = {Len(ev.steps)}

\* C24: while an outer activation holds a shared borrow on an object, a reentrant
\* call that asks for another shared borrow on it is granted (never refused, and the
\* activation that enters its body holds it on top of the outer one); when the nested
\* activation returns, the object's flag is back to its value just before the nested
\* call, and the outer activation's borrow is still held.
C24_SharedReentryRestores ==
    /\ (ev.op = "call" /\ ev.cause = "BorrowConflict" /\ ev.att.mode = "sh") =>
          LiveSh(ev.att.obj) = 0
    /\ \A o \in Objs :
          /\ (ev.op = "call" /\ ev.outcome = "enter" /\ ev.held[o].sh >= 1
                /\ OuterSh(o) >= 1) =>
                borrow[o] = ev.before[o] + ev.held[o].sh
          /\ (ev.op = "return" /\ ev.held[o].sh >= 1 /\ LiveSh(o) >= 1) =>
                /\ borrow[o] = ev.before[o]
                /\ borrow[o] >= LiveSh(o)

----
\* Properties of slots and native values (ArgSpec).

\* What a call site can violate, over runtime values: the arity, and the kind of an
\* argument bound to an i32 or text parameter.
FitsV(t, v) ==
    CASE t = "i32" -> v.k = "int"
      [] t = "str" -> v.k = "str"
      [] OTHER -> TRUE

ViolatesV(m, args) ==
    \/ IF m.rest THEN Len(args) < Len(m.params) ELSE Len(args) # Len(m.params)
    \/ \E i \in 1..Len(m.params) : i <= Len(args) /\ ~FitsV(m.params[i], args[i])

\* C12: no cell (fixed-parameter cell, tail pair, block cell) is read by a conversion
\* or by the body before extraction has written it; when extraction fails, no cell
\* of the activation is read (nothing is bound from one); and no stage of one
\* activation touches the cells, or anything else, of another activation, a nested
\* one included.
C12_SlotsPrivateAndWrittenFirst ==
    /\ [](/\ \A i \in 1..Len(frames) : ~frames[i].early
          /\ last.op # "none" => ~last.fr.early
          /\ \A i \in 1..Len(frames) :
                frames[i].pc = "body" /\ ~RecvOnly(frames[i].m) =>
                    /\ \A j \in 1..Len(frames[i].cells) : frames[i].cells[j].w
                    /\ frames[i].m.rest => frames[i].tailc.w
                    /\ frames[i].m.blk => frames[i].blkc.w
          /\ last.op = "ArgumentError" =>
                last.fr.nat = <<>> /\ last.fr.tail = <<>> /\ last.fr.blk = Junk)
    /\ [][\A i \in 1..Len(frames) :
             (i < Len(frames) \/ Len(frames') > Len(frames)) /\ i <= Len(frames')
                 => frames'[i] = frames[i]]_vars

C12_Witness ==
    /\ Len(frames) = 2
    /\ frames[2].pc = "body"
    /\ Len(frames[2].cells) = 2 /\ Len(frames[2].nat) = 2
    /\ Len(frames[1].cells) = 1 /\ frames[1].cells[1].w
    /\ frames[1].blkc.w

\* C13: when the body starts, the i-th parameter has the i-th declared type and
\* denotes the i-th argument of the call, for every position i.
C13_NativesDenoteArguments ==
    (last.op = "conv") =>
        LET f == last.fr
        IN /\ Len(f.nat) = Len(f.m.params)
           /\ \A i \in 1..Len(f.m.params) :
                 /\ f.nat[i].t = f.m.params[i]
                 /\ f.nat[i].k = f.args[i].k
                 /\ f.nat[i].n = f.args[i].n

\* C14: with k fixed parameters and a variadic tail, extraction fails only on a call
\* that has fewer than k arguments or a fixed argument of the wrong kind; otherwise
\* the tail the body sees is the arguments k+1..n in call order, of length n - k
\* (empty when n = k).
C14_TailInCallOrder ==
    /\ (last.op = "ArgumentError" /\ last.fr.m.rest) => ViolatesV(last.fr.m, last.fr.args)
    /\ \A i \in 1..Len(frames) :
          LET f == frames[i]
              k == Len(f.m.params)
          IN (f.m.rest /\ f.pc \in {"conv", "body"}) =>
                /\ Len(f.args) >= k
                /\ Len(f.tail) = Len(f.args) - k
                /\ \A j \in 1..Len(f.tail) :
                      /\ f.tail[j].t = "Value"
                      /\ f.tail[j].k = f.args[k + j].k
                      /\ f.tail[j].n = f.args[k + j].n

C14_Witness ==
    /\ frames # <<>>
    /\ TopOf(frames).pc = "body"
    /\ TopOf(frames).m.rest
    /\ Len(TopOf(frames).m.params) = 1
    /\ Len(TopOf(frames).tail) = 2
    /\ TopOf(frames).tail[1] # TopOf(frames).tail[2]

\* C15: a call to a block-accepting method that gives no block fails in extraction
\* only if its arguments violate the signature; when the body starts, its block
\* parameter is a Value of nil (no block given) or the block of the call site.
C15_NoBlockIsNil ==
    /\ (last.op = "ArgumentError" /\ last.fr.m.blk) => ViolatesV(last.fr.m, last.fr.args)
    /\ \A i \in 1..Len(frames) :
          LET f == frames[i]
          IN (f.m.blk /\ f.pc = "body") =>
                /\ f.blk.t = "Value"
                /\ f.blk.k = IF f.given THEN "proc" ELSE "nil"
                /\ f.blk.n = IF f.given THEN ProcV.n ELSE NilV.n

C15_Witness ==
    /\ frames # <<>>
    /\ TopOf(frames).pc = "body"
    /\ TopOf(frames).m.blk /\ TopOf(frames).m.rest
    /\ ~TopOf(frames).given
    /\ TopOf(frames).blk = [t |-> "Value", k |-> "nil", n |-> 0]
    /\ TopOf(frames).tail # <<>>

----
\* Properties of the class macros (ClassSpec).

\* The runtime class of Cont: the explicit name, or the name of the type.
ContClass == IF prog.mrname = "" THEN "Cont" ELSE prog.mrname

IsNew == res.op = "new"
IsCall == res.op = "call"

\* The typed references among a receiver type and a parameter list.
RefCount(m) ==
    Cardinality({i \in 1..Len(m.params) : m.params[i] \in {"Ref", "RefMut"}})
        + IF m.slf \in {"Ref", "RefMut"} THEN 1 ELSE 0

C17_DynamicAllOpaque ==
    ((IsCall \/ IsNew) /\ res.entry.mode = "dynamic") =>
        /\ heap = res.hbefore
        /\ res.held = NoHeld
        /\ res.outcome = "value" =>
              /\ res.entry.m.slf = "Value"
              /\ \A i \in 1..Len(res.entry.m.params) : res.entry.m.params[i] = "Value"

\* C17: a method registered in dynamic mode is registered as written (its first typed
\* parameter is the receiver, with the type declared; "initialize" is no exception),
\* and no call to it creates or changes a binding; its receiver and parameters are
\* bound by their declared types as in reflected mode: a typed reference is borrowed
\* from the binding of the object passed while the body runs, and released after.
C17_DynamicBindsAsDeclared ==
    /\ \A k \in Keys : tab[k].mode = "dynamic" => tab[k].body # "init"
    /\ res.op = "mruby_class" =>
          \A i \in 1..Len(prog.dblock) :
              /\ res.steps[i + 1].entry.m.slf = Head(prog.dblock[i].ps)
              /\ res.steps[i + 1].entry.m.params = Tail(prog.dblock[i].ps)
              /\ res.steps[i + 1].entry.body = prog.dblock[i].body
    /\ ((IsCall \/ IsNew) /\ res.entry.mode = "dynamic") =>
          /\ heap = res.hbefore
          /\ res.outcome = "value" =>
                /\ GuardCount(res.held) = RefCount(res.entry.m)
                /\ borrow = res.before

C17_Witness ==
    /\ IsCall /\ res.entry.mode = "dynamic" /\ res.outcome = "value"
    /\ res.entry.m.slf = "i32"
    /\ res.held["a"].sh = 1
    /\ res.value = IntV(3 + heap["a"].val)

\* C18: a method whose receiver and single parameter are shared typed references to
\* the same host type, called on two distinct instances, returns the result computed
\* from the states of both (3 and 4 added give 7; 3 greater than 2 gives true),
\* changes no binding, and leaves every borrow flag as it found it: an instance that
\* holds no leaked guard is unborrowed and can be borrowed again, even exclusively.
C18_TwoInstances ==
    (/\ IsCall
     /\ res.entry.m = [slf |-> "Ref", params |-> <<"Ref">>, rest |-> FALSE, blk |-> FALSE]
     /\ Len(res.args) = 1 /\ res.args[1].k = "obj" /\ res.args[1] # res.recv) =>
        LET x == res.hbefore[TokOf(res.recv)].val
            y == res.hbefore[TokOf(res.args[1])].val
        IN /\ res.outcome = "value"
           /\ res.entry.body = "add" => res.value = IntV(x + y)
           /\ res.entry.body = "gt" => res.value = BoolV(x > y)
           /\ (res.entry.body = "add" /\ x = 3 /\ y = 4) => res.value = IntV(7)
           /\ (res.entry.body = "gt" /\ x = 3 /\ y = 2) => res.value = BoolV(TRUE)
           /\ heap = res.hbefore
           /\ borrow = res.before
           /\ \A o \in Objs :
                 (leaked[o].sh = 0 /\ leaked[o].ex = 0) =>
                     borrow[o] = 0 /\ TryBorrowMut(borrow[o]).ok

C18_Witness ==
    /\ IsCall /\ res.outcome = "value"
    /\ res.entry.body = "add"
    /\ res.recv = ObjOf("a") /\ res.args = <<ObjOf("b")>>
    /\ heap["a"].val = 3 /\ heap["b"].val = 4
    /\ res.value = IntV(7)
    /\ res.held["a"].sh = 1 /\ res.held["b"].sh = 1
    /\ borrow["a"] = 0 /\ borrow["b"] = 0

\* The table key a declaration of class c is registered under.
DeclKey(c, d) == <<c, d.name, IF d.macro = "def" THEN "inst" ELSE "class">>

\* The declarations of a block that are registered under key k.
DeclsFor(k, c, block) == {i \in 1..Len(block) : DeclKey(c, block[i]) = k}

Latest(S) == CHOOSE i \in S : \A j \in S : j <= i

\* C19: after a class macro has run, each table key holds the entry point of the last
\* declaration of the block for that key, and every key the block does not declare
\* holds what it held before (the instance and the class table of one name are two
\* keys); a call to a key runs the entry point the table holds for it.
C19_LatestRegistrationWins ==
    /\ res.op = "require" =>
          \A k \in Keys :
              LET S == DeclsFor(k, ContClass, prog.block)
              IN tab[k] = IF S = {} THEN res.before[k]
                          ELSE DefinesEntry(prog.block[Latest(S)])
    /\ res.op = "mruby_class" =>
          \A k \in Keys :
              LET S == DeclsFor(k, prog.dname, prog.dblock)
              IN tab[k] = IF S = {} THEN res.before[k]
                          ELSE MrubyDefinesEntry(prog.dblock[Latest(S)])
    /\ (IsCall \/ IsNew) =>
          /\ res.entry = tab[res.key]
          /\ res.outcome = "value" =>
                res.value = BodyValue(tab[res.key], res.recv, res.args, res.hbefore)

C19_Witness ==
    /\ res.op = "require"
    /\ Cardinality(DeclsFor(<<ContClass, "add", "inst">>, ContClass, prog.block)) = 2
    /\ tab[<<ContClass, "add", "inst">>].body = "gt"
    /\ tab[<<ContClass, "add", "class">>].body = "hi"
    /\ tab[<<"Fixnum", "plus", "inst">>].body = "plus"

\* C20: require defines the class of the type first, under the explicit name or else
\* under the type's name, and then registers the declarations of the block one by one
\* in the order written, def! with def_method_for (the instance table) and def_self!
\* with def_class_method_for (the class table); every registration finds the class.
C20_ClassThenMethodsInOrder ==
    res.op = "require" =>
        /\ res.ok
        /\ Len(res.steps) = 1 + Len(prog.block)
        /\ res.steps[1].op = "def_class_for"
        /\ res.steps[1].name = ContClass
        /\ prog.mrname = "" => res.steps[1].name = "Cont"
        /\ classes[ContClass] = [defined |-> TRUE, type |-> "Cont"]
        /\ \A c \in ClassNames \ {ContClass} : classes[c] = res.cbefore[c]
        /\ \A i \in 1..Len(prog.block) :
              LET d == prog.block[i]
                  s == res.steps[i + 1]
              IN /\ s.name = d.name
                 /\ s.target = "Cont"
                 /\ s.op = IF d.macro = "def" THEN "def_method_for"
                           ELSE "def_class_method_for"
                 /\ s.entry.body = IF d.macro = "def" /\ d.name = "initialize"
                                   THEN "init" ELSE d.body
                 /\ tab[DeclKey(ContClass, d)] # NoEntry

C20_Witness ==
    /\ res.op = "require" /\ res.ok
    /\ prog.mrname = ""
    /\ Len(res.steps) = 5
    /\ res.steps[3].op = "def_class_method_for"
    /\ res.steps[4].op = "def_method_for"
    /\ ~res.cbefore["Cont"].defined /\ classes["Cont"].defined

----
\* Properties of the slots (SlotSpec).

\* What mrb_get_args stores for a signature, address by address.
RECURSIVE ExpectsAll(_)
ExpectsAll(sg) == IF sg = <<>> THEN <<>> ELSE Expects(Head(sg)) \o ExpectsAll(Tail(sg))

\* The counts and the order of the cells and addresses of one call of mrb_get_args.
SlotsInOrder ==
    LET k == Len(decl.params)
        n == k + (IF decl.rest THEN 2 ELSE 0) + (IF decl.blk THEN 1 ELSE 0)
    IN /\ Len(pass.cells) = n
       /\ Len(pass.addrs) = n
       /\ \A i \in 1..n : pass.addrs[i] = pass.cells[i]
       /\ \A i \in 1..k : pass.addrs[i].n = "param" /\ pass.addrs[i].i = i
       /\ decl.rest => pass.addrs[k + 1].n = "args" /\ pass.addrs[k + 2].n = "count"
       /\ decl.blk => pass.addrs[n].n = "blk"

\* C21, as stated: an entry point reserves, and passes to mrb_get_args, one cell per
\* fixed parameter, two more (pointer, count) when a tail is declared and one more
\* when a block is declared, in that order, and the i-th address has a storage kind
\* of the i-th signature code.
C21_IthAddressIthCode ==
    pass.called =>
        /\ SlotsInOrder
        /\ \A i \in 1..Len(pass.addrs) :
              /\ i <= Len(pass.sig)
              /\ \E j \in 1..Len(Expects(pass.sig[i])) :
                    pass.addrs[i].kind = Expects(pass.sig[i])[j]

\* C21, amended: the counts and the order are as stated, and the addresses are taken
\* by the signature's codes in order, one by each code of a fixed parameter, two
\* (pointer, then count) by "*" and one by "&", each pointing to the storage its code
\* stores; the i-th address belongs to the i-th code for the fixed parameters.
C21_SlotsMatchSignature ==
    pass.called =>
        /\ SlotsInOrder
        /\ \A i \in 1..Len(decl.params) : <<pass.addrs[i].kind>> = Expects(pass.sig[i])
        /\ [i \in 1..Len(pass.addrs) |-> pass.addrs[i].kind] = ExpectsAll(pass.sig)

C21_Witness ==
    /\ pass.called
    /\ decl.params = <<"i32", "str">> /\ decl.rest /\ decl.blk
    /\ Len(pass.addrs) = 5
    /\ pass.addrs[3].kind = "MrValuePtr" /\ pass.addrs[5].n = "blk"

----
\* Properties of the bindings of one call (BindSpec).

\* The call's arguments satisfy its signature.
Fits(m, args) == GetArgs(SigStr(m.params, m.rest, m.blk), args, <<>>).ok

\* The borrows a call that gets through extraction asks for, in the order the claims
\* give: the receiver's, then those of the typed-reference parameters as declared.
Requests(m, recv, args) ==
    SelectSeq([w \in 1..(Len(m.params) + 1) |->
                  IF w = 1 THEN [who |-> 0, v |-> recv, mode |-> ModeOf(m.slf)]
                  ELSE [who |-> w - 1, v |-> args[w - 1], mode |-> ModeOf(m.params[w - 1])]],
              LAMBDA r : r.mode # "none")

Asked(a) == [who |-> a.who, v |-> a.v, mode |-> a.mode]

\* C22: in one activation the borrows are attempted in a fixed order, the receiver's
\* first and then those of the typed-reference parameters in declared order, none
\* skipped; an attempt that fails (downcast or borrow) is the last one of the
\* activation, which then has ended with an exception without entering the body; the
\* body is entered only after every attempt was made and granted.
C22_BorrowsInDeclaredOrder ==
    bind.op = "run" =>
        LET log == bind.log
            n == Len(log)
            req == IF Fits(bind.m, bind.args) THEN Requests(bind.m, bind.recv, bind.args)
                   ELSE SelectSeq(<<[who |-> 0, v |-> bind.recv,
                                     mode |-> ModeOf(bind.m.slf)]>>,
                                  LAMBDA r : r.mode # "none")
        IN /\ n <= Len(req)
           /\ \A j \in 1..n : Asked(log[j]) = req[j]
           /\ \A j \in 1..(n - 1) : log[j].ok
           /\ (n > 0 /\ ~log[n].ok) =>
                 /\ bind.pc = "done" /\ bind.bodies = 0
                 /\ bind.outcome = "RustPanic"
                 /\ bind.cause = log[n].cause
                 /\ bind.cause \in {"TypeMismatch", "BorrowConflict"}
           /\ (bind.pc \in {"body", "in"} \/ bind.bodies > 0) =>
                 /\ n = Len(req)
                 /\ \A j \in 1..n : log[j].ok

C22_Witness ==
    /\ bind.op = "run" /\ bind.pc = "done"
    /\ bind.m.slf = "Ref" /\ bind.m.params = <<"Ref", "RefMut">>
    /\ Len(bind.args) = 2 /\ bind.args[2] \in Objs
    /\ Len(bind.log) = 2
    /\ bind.log[1].ok /\ bind.log[2].who = 1 /\ ~bind.log[2].ok
    /\ bind.bodies = 0

\* The modes in which a call binds the object o, in binding order.
ModesOn(m, recv, args, o) ==
    LET on == SelectSeq(Requests(m, recv, args), LAMBDA r : r.v = o)
    IN [j \in 1..Len(on) |-> on[j].mode]

AllShared(modes) == \A j \in 1..Len(modes) : modes[j] = "sh"

\* The first binding of an object that those before it rule out: the second one when
\* the first two are not both shared, else the first exclusive one.
FirstRefused(modes) ==
    CHOOSE k \in 2..Len(modes) :
        /\ ~AllShared(SubSeq(modes, 1, k))
        /\ \A j \in 2..(k - 1) : AllShared(SubSeq(modes, 1, j))

AttemptsOn(log, o) == Cardinality({j \in 1..Len(log) : log[j].v = o})

\* The call binds the object o more than once and nothing else stands in its way: the
\* arguments satisfy the signature, every typed reference is given an object, no
\* object is borrowed when the call starts and no other object is bound twice.
BoundTwice(o) ==
    /\ bind.op = "run"
    /\ Fits(bind.m, bind.args)
    /\ \A j \in 1..Len(Requests(bind.m, bind.recv, bind.args)) :
          Requests(bind.m, bind.recv, bind.args)[j].v \in Objs
    /\ \A x \in Objs : bind.before[x] = 0
    /\ Len(ModesOn(bind.m, bind.recv, bind.args, o)) >= 2
    /\ \A x \in Objs \ {o} : Len(ModesOn(bind.m, bind.recv, bind.args, x)) <= 1

\* What the claims say of a call that binds o only in shared mode.
SharedProceeds(o) ==
    LET modes == ModesOn(bind.m, bind.recv, bind.args, o)
    IN AllShared(modes) =>
          /\ bind.pc = "in" => bind.held[o] = [sh |-> Len(modes), ex |-> 0]
                               /\ borrow[o] = Len(modes)
          /\ bind.pc = "done" => bind.bodies = 1 /\ bind.cause # "BorrowConflict"

\* C23, as stated: when a call binds one object more than once, with all the bindings
\* shared the body is entered with that many shared borrows held on the object; with
\* any of them exclusive the call ends with BorrowConflict at the second binding of
\* the object, the body never entered.
C23_ConflictAtSecondBinding ==
    \A o \in Objs :
        BoundTwice(o) =>
            LET modes == ModesOn(bind.m, bind.recv, bind.args, o)
            IN /\ SharedProceeds(o)
               /\ ~AllShared(modes) =>
                     /\ bind.bodies = 0 /\ bind.pc \notin {"body", "in"}
                     /\ bind.pc = "done" =>
                           /\ bind.cause = "BorrowConflict"
                           /\ bind.log[Len(bind.log)].v = o
                           /\ AttemptsOn(bind.log, o) = 2

\* C23, amended: with all the bindings shared the body is entered with that many
\* shared borrows held on the object; with any of them exclusive the call ends with
\* BorrowConflict at the first binding that those before it rule out (the second
\* binding unless the first two are both shared, else the first exclusive one), the
\* later bindings are not attempted and the body is never entered.
C23_ConflictAtFirstRefused ==
    \A o \in Objs :
        BoundTwice(o) =>
            LET modes == ModesOn(bind.m, bind.recv, bind.args, o)
            IN /\ SharedProceeds(o)
               /\ ~AllShared(modes) =>
                     /\ bind.bodies = 0 /\ bind.pc \notin {"body", "in"}
                     /\ bind.pc = "done" =>
                           /\ bind.cause = "BorrowConflict"
                           /\ bind.log[Len(bind.log)].v = o
                           /\ ~bind.log[Len(bind.log)].ok
                           /\ AttemptsOn(bind.log, o) = FirstRefused(modes)
                           /\ borrow[o] = 0

C23_Witness ==
    /\ BoundTwice("a")
    /\ bind.pc = "done"
    /\ ModesOn(bind.m, bind.recv, bind.args, "a") = <<"sh", "ex">>
    /\ bind.cause = "BorrowConflict"
    /\ AttemptsOn(bind.log, "a") = 2
    /\ bind.bodies = 0

----
\* Properties of the end of a call (FairBindSpec).

\* C25: an activation whose closure body comes to an end itself ends, with exactly one
\* outcome: one returned Value or one raised exception, never both and never neither;
\* the closure body runs at most once in an activation.
C25_EndsWithOneOutcome ==
    /\ [](bind.op = "run" =>
            /\ bind.bodies <= 1
            /\ bind.values + bind.raised <= 1
            /\ bind.pc = "done" <=> bind.values + bind.raised = 1
            /\ bind.pc = "done" =>
                  /\ bind.values = 1 <=> bind.outcome = "value"
                  /\ bind.raised = 1 <=> bind.outcome \in {"ArgumentError", "RustPanic"}
                  /\ bind.values = 1 => bind.bodies = 1)
    /\ (bind.op = "run") ~> (bind.op = "run" /\ bind.pc = "done")

C25_Witness ==
    /\ bind.op = "run" /\ bind.pc = "done"
    /\ bind.m.rest /\ bind.m.blk /\ bind.m.params = <<"Ref", "RefMut">>
    /\ bind.bodies = 1 /\ bind.values = 1 /\ bind.raised = 0
    /\ bind.outcome = "value"

====
